---- MODULE Spec2Model ----
(***************************************************************************)
(* Observatorio de Comercio Peru: the ETL / metrics pipeline.              *)
(*                                                                         *)
(*   run_pipeline.py            the driver: six stages run as subprocesses *)
(*   observatorio/etl.py        national ETL  -> table trade               *)
(*   observatorio/etl_products.py  category ETL -> table trade_prod        *)
(*   observatorio/metrics.py    national KPI  -> table kpi_monthly         *)
(*   observatorio/metrics_products.py category KPI -> kpi_prod_monthly     *)
(*   app.py, insights_engine.py the dashboard reading the four tables      *)
(*                                                                         *)
(* Amounts (usd) are integers counted in cents, so that "one cent above    *)
(* the tolerance" is a value of the model.  A nullable value is <<>>       *)
(* (null / NaN) or <<v>>.                                                  *)
(***************************************************************************)
EXTENDS Integers, Sequences, FiniteSets, TLC

VARIABLES
    books,   \* the source workbooks on disk, by path
    db,      \* trade.duckdb: the four tables
    pq,      \* the parquet mirror files
    drv,     \* run_pipeline.py: the driver process
    proc,    \* the stage script that is running (driver child or run by hand)
    edit,    \* the last edit an operator made to a source cell
    hist,    \* the run's history: the store before it, kills, failed writes;
             \* and the pandas build the scripts run on
    app      \* app.py: the dashboard's cached data and what it last showed

vars == <<books, db, pq, drv, proc, edit, hist, app>>

----------------------------------------------------------------------------
(* Nullable values                                                         *)

Null == <<>>
Some(v) == <<v>>
IsNull(x) == x = <<>>
Val(x) == x[1]

AbsInt(n) == IF n < 0 THEN 0 - n ELSE n

RECURSIVE SumSeq(_)
SumSeq(s) == IF s = <<>> THEN 0 ELSE Head(s) + SumSeq(Tail(s))

RECURSIVE Flatten(_)
Flatten(ss) == IF ss = <<>> THEN <<>> ELSE Head(ss) \o Flatten(Tail(ss))

Range(s) == {s[i] : i \in DOMAIN s}

(* The elements of a finite set S as a sequence ascending by rank, a       *)
(* function on S with distinct values.                                     *)
RECURSIVE SortSet(_, _)
SortSet(S, rank) ==
    CHOOSE s \in UNION {
               IF T = {} THEN {<<>>}
               ELSE {<<m>> \o SortSet(T \ {m}, rk) :
                        m \in {x \in T : \A y \in T : rk[x] <= rk[y]}} :
               T \in {S}, rk \in {rank}} : TRUE

----------------------------------------------------------------------------
(* Spreadsheet cells, sheets, workbooks                                    *)

Num(n) == [k |-> "num", v |-> n, s |-> ""]
NaN == [k |-> "nan", v |-> 0, s |-> ""]
Str(t) == [k |-> "str", v |-> 0, s |-> t]

MONTHS == <<"Enero", "Febrero", "Marzo", "Abril", "Mayo", "Junio",
            "Julio", "Agosto", "Septiembre", "Octubre", "Noviembre", "Diciembre">>

MonthSet == Range(MONTHS)

(* str.strip() on the texts that carry surrounding blanks.                 *)
StripMap == [t \in {" Enero ", "Total ", "   ", " Cafe"} |->
                CASE t = " Enero " -> "Enero"
                  [] t = "Total "  -> "Total"
                  [] t = "   "     -> ""
                  [] t = " Cafe"   -> "Cafe"]

Strip(t) == IF t \in DOMAIN StripMap THEN StripMap[t] ELSE t

(* str(cell).strip(): an empty cell reads as NaN and prints as "nan".      *)
CellText(c) ==
    CASE c.k = "str" -> Strip(c.s)
      [] c.k = "nan" -> "nan"
      [] OTHER       -> ToString(c.v)

(* A workbook file: it may be absent, or present and unreadable.  A sheet  *)
(* is [name, grid], a grid a rectangular sequence of rows of cells.        *)
Book(sheets) == [exists |-> TRUE, readable |-> TRUE, sheets |-> sheets]
MissingBook == [exists |-> FALSE, readable |-> FALSE, sheets |-> <<>>]
CorruptBook == [exists |-> TRUE, readable |-> FALSE, sheets |-> <<>>]

(* re.fullmatch(r"\d{4}", sheet) and int(sheet), on the sheet names used.  *)
YearNum == [n \in {"2005", "2006"} |-> IF n = "2005" THEN 2005 ELSE 2006]

IsYearSheet(name) == name \in DOMAIN YearNum

NCols(grid) == IF grid = <<>> THEN 0 ELSE Len(grid[1])

MinOf(S) == CHOOSE x \in S : \A y \in S : x <= y

Ascending(S) == SortSet(S, [x \in S |-> x])

(* next(i for i, row in df.iterrows() if any(str(cell).strip() == "Enero"  *)
(* ...)): the first such row, 0 when there is none (StopIteration).        *)
HeadIdx(grid) ==
    LET hits == {r \in DOMAIN grid :
                    \E c \in DOMAIN grid[r] : CellText(grid[r][c]) = "Enero"}
    IN IF hits = {} THEN 0 ELSE MinOf(hits)

----------------------------------------------------------------------------
(* etl_products.py: parse_book                                             *)

(* col_map: the columns of the header row labelled with a month or Total.  *)
ColMapProd(grid, h) ==
    {c \in 1..NCols(grid) : CellText(grid[h][c]) \in MonthSet \cup {"Total"}}

(* The texts of name cells, spelled out, for the str operations of the     *)
(* parsers: lower(), startswith(), len() and "in".                         *)
Chars ==
    ("Cafe" :> <<"C", "a", "f", "e">>)
    @@ ("Oro" :> <<"O", "r", "o">>)
    @@ ("Plata" :> <<"P", "l", "a", "t", "a">>)
    @@ ("Zinc" :> <<"Z", "i", "n", "c">>)
    @@ ("Cacao" :> <<"C", "a", "c", "a", "o">>)
    @@ ("Te" :> <<"T", "e">>)
    @@ ("a" :> <<"a">>)
    @@ ("" :> <<>>)
    @@ ("nan" :> <<"n", "a", "n">>)
    @@ ("NaN" :> <<"N", "a", "N">>)
    @@ ("None" :> <<"N", "o", "n", "e">>)
    @@ ("none" :> <<"n", "o", "n", "e">>)
    @@ ("Incluye reexportaciones" :> <<"I", "n", "c", "l", "u", "y", "e", " ", "r", "e", "e",
            "x", "p", "o", "r", "t", "a", "c", "i", "o", "n", "e", "s">>)
    @@ ("incluye notas" :> <<"i", "n", "c", "l", "u", "y", "e", " ", "n", "o", "t", "a", "s">>)
    @@ ("Total" :> <<"T", "o", "t", "a", "l">>)
    @@ ("Total general" :> <<"T", "o", "t", "a", "l", " ", "g", "e", "n", "e", "r", "a", "l">>)
    @@ ("TOTAL" :> <<"T", "O", "T", "A", "L">>)
    @@ ("total anual" :> <<"t", "o", "t", "a", "l", " ", "a", "n", "u", "a", "l">>)
    @@ ("Totales" :> <<"T", "o", "t", "a", "l", "e", "s">>)
    @@ ("(US$)" :> <<"(", "U", "S", "$", ")">>)
    @@ ("Producto" :> <<"P", "r", "o", "d", "u", "c", "t", "o">>)
    @@ ("Cuadro" :> <<"C", "u", "a", "d", "r", "o">>)
    @@ ("Concepto" :> <<"C", "o", "n", "c", "e", "p", "t", "o">>)
    @@ ("Total general 1/" :> <<"T", "o", "t", "a", "l", " ", "g", "e", "n", "e", "r", "a",
            "l", " ", "1", "/">>)
    @@ ("Enero" :> <<"E", "n", "e", "r", "o">>)
    @@ ("Febrero" :> <<"F", "e", "b", "r", "e", "r", "o">>)
    @@ (" Enero " :> <<" ", "E", "n", "e", "r", "o", " ">>)
    @@ ("Total " :> <<"T", "o", "t", "a", "l", " ">>)
    @@ ("Suma" :> <<"S", "u", "m", "a">>)
    @@ ("   " :> <<" ", " ", " ">>)
    @@ (" Cafe" :> <<" ", "C", "a", "f", "e">>)
    @@ ("150" :> <<"1", "5", "0">>)
    @@ ("0" :> <<"0">>)
    @@ ("n.d." :> <<"n", ".", "d", ".">>)

LowerMap == ("C" :> "c") @@ ("O" :> "o") @@ ("P" :> "p") @@ ("Z" :> "z") @@ ("T" :> "t")
         @@ ("N" :> "n") @@ ("A" :> "a") @@ ("I" :> "i") @@ ("L" :> "l")

Lower(s) == [i \in DOMAIN s |-> IF s[i] \in DOMAIN LowerMap THEN LowerMap[s[i]] ELSE s[i]]

StartsWith(s, prefix) == Len(s) >= Len(prefix) /\ SubSeq(s, 1, Len(prefix)) = prefix

Contains(s, sub) ==
    \E i \in 1..(Len(s) - Len(sub) + 1) : SubSeq(s, i, i + Len(sub) - 1) = sub

(* The row filter: not cat, cat.lower() in ['nan', 'none', ''],            *)
(* cat.lower().startswith("incluye"), cat.lower().startswith("total"),     *)
(* len(cat) < 3.                                                           *)
IsDataNameNoTotalTest(cat) ==
    LET s == Chars[cat]
        low == Lower(s)
    IN ~ (\/ s = <<>>
          \/ low \in {Chars["nan"], Chars["none"], <<>>}
          \/ StartsWith(low, <<"i", "n", "c", "l", "u", "y", "e">>)
          \/ Len(s) < 3)
IsDataName(cat) ==
    LET s == Chars[cat]
        low == Lower(s)
    IN ~ (\/ s = <<>>
          \/ low \in {Chars["nan"], Chars["none"], <<>>}
          \/ StartsWith(low, <<"i", "n", "c", "l", "u", "y", "e">>)
          \/ StartsWith(low, <<"t", "o", "t", "a", "l">>)
          \/ Len(s) < 3)

(* float(val): a number, the number a numeric text spells, or ValueError.  *)
NumText == [t \in {"150", "0"} |-> IF t = "150" THEN 150 ELSE 0]

FloatOf(c) ==
    CASE c.k = "num" -> Some(c.v)
      [] c.k = "nan" -> Null
      [] OTHER       -> IF c.s \in DOMAIN NumText THEN Some(NumText[c.s]) ELSE Null

(* pd.isna(val) or val == '' or val == 0: the cell is passed over; so is a *)
(* cell float() rejects (ValueError, caught).                              *)
CellEmits(c) ==
    /\ c.k # "nan"
    /\ ~ (c.k = "str" /\ c.s = "")
    /\ ~ (c.k = "num" /\ c.v = 0)
    /\ ~ IsNull(FloatOf(c))

NameCell(grid, r) == IF NCols(grid) > 2 THEN grid[r][3] ELSE grid[r][1]

RowRecordsProd(year, flow, grid, h, r) ==
    LET cols == Ascending(ColMapProd(grid, h))
        emit(c) == CellEmits(grid[r][c])
        kept == SelectSeq(cols, emit)
    IN [i \in 1..Len(kept) |->
          [year     |-> year,
           month    |-> CellText(grid[h][kept[i]]),
           flow     |-> flow,
           category |-> CellText(NameCell(grid, r)),
           usd      |-> Val(FloatOf(grid[r][kept[i]]))]]

ParseSheetProd(sheet, flow) ==
    LET grid == sheet.grid
        h == HeadIdx(grid)
    IN IF ~ IsYearSheet(sheet.name) THEN <<>>
       ELSE IF h = 0 THEN <<>>
       ELSE IF ColMapProd(grid, h) = {} THEN <<>>
       ELSE LET rows == Ascending({r \in (h + 3)..Len(grid) :
                                      IsDataName(CellText(NameCell(grid, r)))})
            IN Flatten([i \in 1..Len(rows) |->
                          RowRecordsProd(YearNum[sheet.name], flow, grid, h, rows[i])])

parse_book_prod(book, flow) ==
    Flatten([i \in 1..Len(book.sheets) |-> ParseSheetProd(book.sheets[i], flow)])

----------------------------------------------------------------------------
(* etl_products.py: qa_totals                                              *)

(* The order pandas sorts group keys in: year, then flow, then category    *)
(* (texts by code point).                                                  *)
CatOrder == <<"Cacao", "Cafe", "Oro", "Plata", "Zinc">>

CatRank(cat) == CHOOSE i \in DOMAIN CatOrder : CatOrder[i] = cat

FlowRank(flow) == IF flow = "export" THEN 0 ELSE 1

GroupKey(r) == [year |-> r.year, flow |-> r.flow, category |-> r.category]

KeyRank(k) == (k.year * 2 + FlowRank(k.flow)) * (Len(CatOrder) + 1) + CatRank(k.category)

SortKeys(K) == SortSet(K, [k \in K |-> KeyRank(k)])

IsTotalRec(r) == r.month = "Total"
IsMonthRec(r) == r.month # "Total"

(* groupby([...])["usd"].sum() of the records of rows with key k.          *)
GroupSum(rows, k) ==
    LET mine(r) == GroupKey(r) = k
        sel == SelectSeq(rows, mine)
    IN SumSeq([i \in 1..Len(sel) |-> sel[i].usd])

(* abs(delta) > 1e-3 (USD): with amounts in whole cents, 1e-3 USD is 1/10  *)
(* of a cent.                                                              *)
QaTolMilli == 1

ExceedsQaTol(d) == AbsInt(d) > QaTolMilli \div 10

FindingSwapped(k, sum_months, usd_total) ==
    [year |-> k.year, flow |-> k.flow, category |-> k.category,
     sum_months |-> sum_months, usd_total |-> usd_total,
     delta |-> IF IsNull(usd_total) THEN Null ELSE Some(sum_months - Val(usd_total))]
Finding(k, sum_months, usd_total) ==
    [year |-> k.year, flow |-> k.flow, category |-> k.category,
     sum_months |-> sum_months, usd_total |-> usd_total,
     delta |-> IF IsNull(usd_total) THEN Null ELSE Some(Val(usd_total) - sum_months)]

(* df_monthly.merge(df_total, how="left"): one row per group that has a    *)
(* monthly record, with the group's Total sum, or NaN when it has none.    *)
Joined(df_long) ==
    LET monthly == SelectSeq(df_long, IsMonthRec)
        totals == SelectSeq(df_long, IsTotalRec)
        keys == SortKeys({GroupKey(monthly[i]) : i \in DOMAIN monthly})
        tkeys == {GroupKey(totals[i]) : i \in DOMAIN totals}
    IN [i \in 1..Len(keys) |->
          Finding(keys[i], GroupSum(monthly, keys[i]),
                  IF keys[i] \in tkeys THEN Some(GroupSum(totals, keys[i])) ELSE Null)]

IsBad(f) == ~ IsNull(f.delta) /\ ExceedsQaTol(Val(f.delta))

RemoveAt(s, i) == [j \in 1..(Len(s) - 1) |-> IF j < i THEN s[j] ELSE s[j + 1]]

(* DataFrame.nlargest(n, "delta"): by delta descending, the first of equal *)
(* deltas first.                                                           *)
RECURSIVE NLargest(_, _)
NLargest(n, s) ==
    IF n = 0 \/ s = <<>> THEN <<>>
    ELSE LET i == CHOOSE i \in DOMAIN s :
                     /\ \A j \in DOMAIN s : Val(s[j].delta) <= Val(s[i].delta)
                     /\ \A j \in 1..(i - 1) : Val(s[j].delta) < Val(s[i].delta)
         IN <<s[i]>> \o NLargest(n - 1, RemoveAt(s, i))

ShowWorst == 5

NoQa == [status |-> "none", joined |-> <<>>, bad |-> <<>>, worst |-> <<>>]

(* What qa_totals computes and prints: "skipped" when there is no Total    *)
(* record at all, "clean" when no group is flagged, else the flagged       *)
(* groups and the table of the worst ones.  It returns None and leaves     *)
(* df_long as it is.                                                       *)
qa_totals(df_long) ==
    LET totals == SelectSeq(df_long, IsTotalRec)
        joined == Joined(df_long)
        bad == SelectSeq(joined, IsBad)
    IN IF totals = <<>>
       THEN [status |-> "skipped", joined |-> <<>>, bad |-> <<>>, worst |-> <<>>]
       ELSE [status |-> IF bad = <<>> THEN "clean" ELSE "flagged",
             joined |-> joined, bad |-> bad,
             worst  |-> IF bad = <<>> THEN <<>> ELSE NLargest(ShowWorst, bad)]

----------------------------------------------------------------------------
(* tests/test_products_qa.py: test_monthly_vs_total_consistency            *)

TestTolCents == 100000
MajorTolCents == 1000000000

MaxOf(S) == CHOOSE x \in S : \A y \in S : x >= y

(* monthly_sums: per group of the table, SUM of the monthly usd and MAX of *)
(* the Total usd (0 for the other records), kept when that MAX is > 0.     *)
TestMonthlySums(table) ==
    LET keys == SortKeys({GroupKey(table[i]) : i \in DOMAIN table})
        row(k) ==
            LET mine(r) == GroupKey(r) = k
                sel == SelectSeq(table, mine)
            IN [year |-> k.year, flow |-> k.flow, category |-> k.category,
                sum_months |-> SumSeq([i \in 1..Len(sel) |->
                                  IF IsMonthRec(sel[i]) THEN sel[i].usd ELSE 0]),
                total_annual |-> MaxOf({IF IsTotalRec(sel[i]) THEN sel[i].usd ELSE 0 :
                                           i \in DOMAIN sel})]
        all == [i \in 1..Len(keys) |-> row(keys[i])]
        having(g) == g.total_annual > 0
    IN SelectSeq(all, having)

TestDifference(g) == AbsInt(g.sum_months - g.total_annual)

TestDiscrepancies(table) ==
    LET over(g) == TestDifference(g) > TestTolCents
    IN SelectSeq(TestMonthlySums(table), over)

TestMajor(table) ==
    LET major(g) == TestDifference(g) > MajorTolCents
    IN SelectSeq(TestDiscrepancies(table), major)

----------------------------------------------------------------------------
(* etl.py: parse_book, qa_report                                           *)

ColMeses(grid, h) == {c \in 1..NCols(grid) : CellText(grid[h][c]) \in MonthSet}

(* header[header == "Total"].index: the cells equal to "Total" as they are *)
(* (no strip).                                                             *)
ColTotal(grid, h) == {c \in 1..NCols(grid) : grid[h][c] = Str("Total")}

(* isinstance(v, str) and "Total general" in v: the first such row.        *)
TotIdx(grid) ==
    LET hits == {r \in DOMAIN grid :
                    \E c \in DOMAIN grid[r] :
                       /\ grid[r][c].k = "str"
                       /\ Contains(Chars[grid[r][c].s], Chars["Total general"])}
    IN IF hits = {} THEN 0 ELSE MinOf(hits)

(* float(df.iat[r, c]) raises ValueError on a text that is no number; an   *)
(* empty cell gives NaN.                                                   *)
FloatRaises(c) == c.k = "str" /\ c.s \notin DOMAIN NumText

(* A year sheet raises when it has no 'Enero' row (StopIteration), no      *)
(* 'Total' column (IndexError), no 'Total general' row (StopIteration) or  *)
(* a text in a cell it converts (ValueError).                              *)
SheetRaisesNat(sheet) ==
    LET grid == sheet.grid
        h == HeadIdx(grid)
        t == TotIdx(grid)
    IN \/ h = 0
       \/ ColTotal(grid, h) = {}
       \/ t = 0
       \/ \E c \in ColMeses(grid, h) \cup {MinOf(ColTotal(grid, h))} : FloatRaises(grid[t][c])

ParseSheetNat(sheet, flow) ==
    LET grid == sheet.grid
        h == HeadIdx(grid)
        t == TotIdx(grid)
        cols == Ascending(ColMeses(grid, h))
        col_total == MinOf(ColTotal(grid, h))
        present == SelectSeq([i \in 1..Len(cols) |-> FloatOf(grid[t][cols[i]])],
                             LAMBDA x : ~ IsNull(x))
        months == [i \in 1..Len(cols) |->
                     [year |-> YearNum[sheet.name], month |-> CellText(grid[h][cols[i]]),
                      flow |-> flow, usd |-> FloatOf(grid[t][cols[i]]),
                      sum_months |-> Null]]
    IN months \o
       << [year |-> YearNum[sheet.name], month |-> "Total", flow |-> flow,
           usd |-> FloatOf(grid[t][col_total]),
           sum_months |-> Some(SumSeq([i \in 1..Len(present) |-> Val(present[i])]))] >>

(* [ok, recs]: ok is FALSE when pd.ExcelFile or a sheet raises.            *)
parse_book_nat(book, flow) ==
    LET year_sheets == SelectSeq(book.sheets, LAMBDA sh : IsYearSheet(sh.name))
    IN IF ~ book.exists \/ ~ book.readable
          \/ \E i \in DOMAIN year_sheets : SheetRaisesNat(year_sheets[i])
       THEN [ok |-> FALSE, recs |-> <<>>]
       ELSE [ok |-> TRUE,
             recs |-> Flatten([i \in 1..Len(year_sheets) |->
                                  ParseSheetNat(year_sheets[i], flow)])]

(* qa_report: one line per Total record, diff = usd - sum_months.          *)
qa_report(df_tot) ==
    [i \in 1..Len(df_tot) |->
        [year |-> df_tot[i].year, flow |-> df_tot[i].flow,
         usd |-> df_tot[i].usd, sum_months |-> df_tot[i].sum_months,
         diff |-> IF IsNull(df_tot[i].usd) \/ IsNull(df_tot[i].sum_months) THEN Null
                  ELSE Some(Val(df_tot[i].usd) - Val(df_tot[i].sum_months))]]

----------------------------------------------------------------------------
(* The store: trade.duckdb and the parquet mirrors                         *)

Tables == {"trade", "trade_prod", "kpi_monthly", "kpi_prod_monthly"}

NoTable == [has |-> FALSE, rows |-> <<>>]

(* CREATE OR REPLACE TABLE t AS SELECT * FROM df                           *)
WriteTableAppend(old, df) == [has |-> TRUE, rows |-> old.rows \o df]
WriteTable(old, df) == [has |-> TRUE, rows |-> df]

(* df.to_parquet(file, index=False)                                        *)
WriteParquetIfAbsent(old, df) == IF old.has THEN old ELSE [has |-> TRUE, rows |-> df]
WriteParquet(old, df) == [has |-> TRUE, rows |-> df]

(* A mirror file whose write was cut short.                                *)
TornFile == [has |-> TRUE, rows |-> << [torn |-> TRUE] >>]

----------------------------------------------------------------------------
(* Source files and the stage scripts                                      *)

F8 == "data/cdro_F8.xlsx"
G6 == "data/cdro_G6.xlsx"
F1 == "data/cdro_F1.xlsx"
G1 == "data/cdro_G1.xlsx"
ObsF8 == "observatorio/data/cdro_F8.xlsx"
ObsG6 == "observatorio/data/cdro_G6.xlsx"

Paths == {F8, G6, F1, G1, ObsF8, ObsG6}

(* SRC of etl.py and of etl_products.py, in the order SRC.items() yields.  *)
Flows == <<"import", "export">>
SRC_NAT == [flow \in Range(Flows) |-> IF flow = "import" THEN F8 ELSE G6]
SRC_PROD == [flow \in Range(Flows) |-> IF flow = "import" THEN F1 ELSE G1]

NoProc == [script |-> "none", pc |-> "none", df |-> <<>>, qa |-> NoQa,
           kpi |-> <<>>, rc |-> 0]

(* The dashboard before its first page load: nothing cached.               *)
NoApp == [loaded |-> FALSE, cached |-> {}, conn |-> [nat |-> FALSE, prod |-> FALSE],
          nat |-> <<>>, prod |-> <<>>, top |-> <<>>, insights |-> <<>>]

StartProc(script) == [NoProc EXCEPT !.script = script, !.pc = "start"]

ExitProc(p, rc) == [p EXCEPT !.pc = "exit", !.rc = rc]

At(script, pc) == proc.script = script /\ proc.pc = pc

(* What happens from outside: a script started by hand, a write that       *)
(* raises, a kill, the source workbooks replaced.  A behaviour has at most *)
(* MaxEvents of them.                                                      *)
MaxEvents == 2

(* A write to the database or to a mirror file succeeds or raises (disk,   *)
(* lock, missing parquet engine).                                          *)
WriteOutcomes == IF hist.events < MaxEvents THEN BOOLEAN ELSE {TRUE}

----------------------------------------------------------------------------
(* etl_products.py: main                                                   *)

(* for flow, path in SRC.items(): if not path.exists(): ... return         *)
ProdFilesPresent(bk) == \A i \in DOMAIN Flows : bk[SRC_PROD[Flows[i]]].exists

(* frames: the non-empty parse results, in SRC order; a workbook that      *)
(* raises is reported and passed over.                                     *)
ProdFrames(bk) ==
    LET frame(flow) == IF bk[SRC_PROD[flow]].readable
                       THEN parse_book_prod(bk[SRC_PROD[flow]], flow) ELSE <<>>
        all == [i \in DOMAIN Flows |-> frame(Flows[i])]
    IN SelectSeq(all, LAMBDA f : f # <<>>)

ProdAfterCheck(p, bk) ==
    IF ProdFilesPresent(bk) THEN [p EXCEPT !.pc = "parse"] ELSE ExitProc(p, 0)

ProdAfterParse(p, bk) ==
    IF ProdFrames(bk) = <<>> THEN ExitProc(p, 0)
    ELSE [p EXCEPT !.df = Flatten(ProdFrames(bk)), !.pc = "qa"]

(* qa_totals(df) is called for its printout; main goes on to persist df.   *)
ProdAfterQaDropBad(p) ==
    LET q == qa_totals(p.df)
        flagged == {GroupKey(q.bad[i]) : i \in DOMAIN q.bad}
    IN [p EXCEPT !.qa = q, !.pc = "write",
                 !.df = SelectSeq(p.df, LAMBDA r : GroupKey(r) \notin flagged)]
ProdAfterQa(p) == [p EXCEPT !.qa = qa_totals(p.df), !.pc = "write"]

ProdCheck ==
    /\ At("etl_products", "start")
    /\ proc' = ProdAfterCheck(proc, books)
    /\ UNCHANGED <<books, db, pq, drv, edit, hist, app>>

ProdParse ==
    /\ At("etl_products", "parse")
    /\ proc' = ProdAfterParse(proc, books)
    /\ UNCHANGED <<books, db, pq, drv, edit, hist, app>>

ProdQa ==
    /\ At("etl_products", "qa")
    /\ proc' = ProdAfterQa(proc)
    /\ UNCHANGED <<books, db, pq, drv, edit, hist, app>>

(* try: CREATE OR REPLACE TABLE trade_prod ...; to_parquet(...)            *)
(* except Exception: print.  Either write may fail (ok = FALSE); the       *)
(* script ends with exit status 0 in every case.                           *)
ProdWrite ==
    /\ At("etl_products", "write")
    /\ \E ok \in WriteOutcomes :
         /\ db' = IF ok THEN [db EXCEPT !.trade_prod = WriteTable(@, proc.df)] ELSE db
         /\ proc' = IF ok THEN [proc EXCEPT !.pc = "mirror"] ELSE ExitProc(proc, 0)
         /\ hist' = IF ok THEN [hist EXCEPT !.wrote = @ \cup {"trade_prod"}]
                    ELSE [hist EXCEPT !.fault = TRUE, !.events = @ + 1]
    /\ UNCHANGED <<books, pq, drv, edit, app>>

ProdMirror ==
    /\ At("etl_products", "mirror")
    /\ \E ok \in WriteOutcomes :
         /\ pq' = IF ok THEN [pq EXCEPT !.trade_prod = WriteParquet(@, proc.df)] ELSE pq
         /\ proc' = ExitProc(proc, IF ok THEN 0 ELSE 0)
         /\ hist' = IF ok THEN hist ELSE [hist EXCEPT !.fault = TRUE, !.events = @ + 1]
    /\ UNCHANGED <<books, db, drv, edit, app>>

----------------------------------------------------------------------------
(* etl.py: main                                                            *)

(* frames = [parse_book(path, flow) ...]; df = pd.concat(frames): [ok,     *)
(* recs], ok FALSE when a workbook raises or when no record at all was     *)
(* parsed (df then has no 'month' column: KeyError).                       *)
NatFrames(bk) ==
    LET imp == parse_book_nat(bk[SRC_NAT["import"]], "import")
        exp == parse_book_nat(bk[SRC_NAT["export"]], "export")
    IN IF ~ imp.ok \/ ~ exp.ok \/ imp.recs \o exp.recs = <<>>
       THEN [ok |-> FALSE, recs |-> <<>>]
       ELSE [ok |-> TRUE, recs |-> imp.recs \o exp.recs]

NatAfterParse(p, bk) ==
    IF NatFrames(bk).ok THEN [p EXCEPT !.df = NatFrames(bk).recs, !.pc = "qa"]
    ELSE ExitProc(p, 1)

NatAfterQa(p) ==
    [p EXCEPT !.qa = [NoQa EXCEPT !.status = "report",
                                  !.joined = qa_report(SelectSeq(p.df, IsTotalRec))],
              !.pc = "write"]

NatParse ==
    /\ At("etl", "start")
    /\ proc' = NatAfterParse(proc, books)
    /\ UNCHANGED <<books, db, pq, drv, edit, hist, app>>

NatQa ==
    /\ At("etl", "qa")
    /\ proc' = NatAfterQa(proc)
    /\ UNCHANGED <<books, db, pq, drv, edit, hist, app>>

(* con.execute("CREATE OR REPLACE TABLE trade AS SELECT * FROM df"): an    *)
(* error here or in to_parquet is not caught and ends the script with      *)
(* status 1.                                                               *)
NatWrite ==
    /\ At("etl", "write")
    /\ \E ok \in WriteOutcomes :
         /\ db' = IF ok THEN [db EXCEPT !.trade = WriteTable(@, proc.df)] ELSE db
         /\ proc' = IF ok THEN [proc EXCEPT !.pc = "mirror"] ELSE ExitProc(proc, 1)
         /\ hist' = IF ok THEN [hist EXCEPT !.wrote = @ \cup {"trade"}]
                    ELSE [hist EXCEPT !.fault = TRUE, !.events = @ + 1]
    /\ UNCHANGED <<books, pq, drv, edit, app>>

NatMirror ==
    /\ At("etl", "mirror")
    /\ \E ok \in WriteOutcomes :
         /\ pq' = IF ok THEN [pq EXCEPT !.trade = WriteParquet(@, proc.df)] ELSE pq
         /\ proc' = ExitProc(proc, IF ok THEN 0 ELSE 1)
         /\ hist' = IF ok THEN hist ELSE [hist EXCEPT !.fault = TRUE, !.events = @ + 1]
    /\ UNCHANGED <<books, db, drv, edit, app>>

----------------------------------------------------------------------------
(* KPI arithmetic (pandas float columns)                                   *)
(*                                                                         *)
(* A KPI value is a number, NaN (NA) or +/- infinity.  Percentages and     *)
(* indices are kept in hundredths (round(2)), ratios in ten-thousandths    *)
(* (round(4)), means in whole units of 100 cents (round(0)).               *)

Fin(v) == [k |-> "num", v |-> v]
NA == [k |-> "na", v |-> 0]
Inf(sign) == [k |-> "inf", v |-> sign]

IsFin(x) == x.k = "num"

Sign(n) == IF n < 0 THEN -1 ELSE 1

(* round(a / b), ties to even, b # 0.                                      *)
RoundDiv(a, b) ==
    LET n == AbsInt(a)
        d == AbsInt(b)
        q == n \div d
        r == n % d
        m == IF 2 * r > d \/ (2 * r = d /\ q % 2 = 1) THEN q + 1 ELSE q
    IN Sign(a) * Sign(b) * m

(* x / y * scale, rounded: NaN when an operand is NaN or for 0 / 0,        *)
(* infinite for a division of a non-zero x by 0.                           *)
Ratio(x, y, scale) ==
    IF ~ IsFin(x) \/ ~ IsFin(y) THEN NA
    ELSE IF y.v = 0 THEN (IF x.v = 0 THEN NA ELSE Inf(Sign(x.v)))
    ELSE Fin(RoundDiv(scale * x.v, y.v))

(* ((x / lag - 1) * 100).round(2), in hundredths of a percent.             *)
PctChange(x, lag) ==
    IF ~ IsFin(x) \/ ~ IsFin(lag) THEN NA
    ELSE IF lag.v = 0 THEN (IF x.v = 0 THEN NA ELSE Inf(Sign(x.v)))
    ELSE Fin(RoundDiv(10000 * (x.v - lag.v), lag.v))

Minus(x, y) == IF IsFin(x) /\ IsFin(y) THEN Fin(x.v - y.v) ELSE NA

(* Series.shift(n)                                                         *)
Shift(col, n) == [i \in DOMAIN col |-> IF i > n THEN col[i - n] ELSE NA]

PctCol(col, n) == [i \in DOMAIN col |-> PctChange(col[i], Shift(col, n)[i])]

MaWindow == 3

(* Series.rolling(3, min_periods=1).mean().round(0): the mean of the       *)
(* numbers among the current and the two preceding rows, rounded to the    *)
(* whole unit (100 cents), ties to even.                                   *)
Ma3OfTwo(col) ==
    [i \in DOMAIN col |->
        LET lo == IF i >= MaWindow - 1 THEN i - MaWindow + 2 ELSE 1
            win == SelectSeq(SubSeq(col, lo, i), IsFin)
        IN IF win = <<>> THEN NA
           ELSE Fin(100 * RoundDiv(SumSeq([j \in 1..Len(win) |-> win[j].v]),
                                   100 * Len(win)))]
Ma3(col) ==
    [i \in DOMAIN col |->
        LET lo == IF i >= MaWindow THEN i - MaWindow + 1 ELSE 1
            win == SelectSeq(SubSeq(col, lo, i), IsFin)
        IN IF win = <<>> THEN NA
           ELSE Fin(100 * RoundDiv(SumSeq([j \in 1..Len(win) |-> win[j].v]),
                                   100 * Len(win)))]

(* month_order: the position of a month in the year.                       *)
MonthNum(m) == CHOOSE i \in DOMAIN MONTHS : MONTHS[i] = m

(* The month labels in the order of their strings, which is the order of   *)
(* the pivot index and of ORDER BY month.                                  *)
MonthsByLabel == <<"Abril", "Agosto", "Diciembre", "Enero", "Febrero", "Julio",
                   "Junio", "Marzo", "Mayo", "Noviembre", "Octubre", "Septiembre">>

LabelNum(m) == CHOOSE i \in DOMAIN MonthsByLabel : MonthsByLabel[i] = m

LagMoM == 1
LagYoY == 12

----------------------------------------------------------------------------
(* metrics.py: generate_metrics                                            *)

(* pivot_table(index=[year, month], columns=flow, values=usd,              *)
(* aggfunc='first'): the first non-null usd of the period and flow.        *)
FirstUsd(rows, year, month, flow) ==
    LET sel == SelectSeq(rows, LAMBDA r : /\ r.year = year /\ r.month = month
                                          /\ r.flow = flow /\ ~ IsNull(r.usd))
    IN IF sel = <<>> THEN NA ELSE Fin(Val(sel[1].usd))

(* sort_values(['year', 'month_num'])                                      *)
PeriodRankByLabel(k) == k.year * (Len(MONTHS) + 1) + LabelNum(k.month)
PeriodRank(k) == k.year * (Len(MONTHS) + 1) + MonthNum(k.month)

(* wide after the pivot, the balance and sort_values([year, month_num]).   *)
NatWide(rows) ==
    LET monthly == SelectSeq(rows, LAMBDA r : IsMonthRec(r) /\ ~ IsNull(r.usd))
        K == {[year |-> monthly[i].year, month |-> monthly[i].month] : i \in DOMAIN monthly}
        keys == SortSet(K, [k \in K |-> PeriodRank(k)])
    IN [i \in 1..Len(keys) |->
          LET e == FirstUsd(monthly, keys[i].year, keys[i].month, "export")
              m == FirstUsd(monthly, keys[i].year, keys[i].month, "import")
          IN [year |-> keys[i].year, month |-> keys[i].month,
              month_num |-> MonthNum(keys[i].month),
              export |-> e, import |-> m, balance |-> Minus(e, m)]]

BaseYear == 2005

(* wide.query("year == 2005 & month == 'Enero'")[col].iloc[0]              *)
BaseRows(wide) == SelectSeq(wide, LAMBDA w : w.year = BaseYear /\ w.month = "Enero")

NatKpiRows(wide) ==
    LET ex == [i \in DOMAIN wide |-> wide[i].export]
        im == [i \in DOMAIN wide |-> wide[i].import]
        ba == [i \in DOMAIN wide |-> wide[i].balance]
        base == BaseRows(wide)[1]
    IN [i \in DOMAIN wide |->
          [year |-> wide[i].year, month |-> wide[i].month, month_num |-> wide[i].month_num,
           export |-> ex[i], import |-> im[i], balance |-> ba[i],
           export_mom |-> PctCol(ex, LagMoM)[i], export_yoy |-> PctCol(ex, LagYoY)[i],
           import_mom |-> PctCol(im, LagMoM)[i], import_yoy |-> PctCol(im, LagYoY)[i],
           export_ma3 |-> Ma3(ex)[i], import_ma3 |-> Ma3(im)[i], balance_ma3 |-> Ma3(ba)[i],
           idx2005_export |-> Ratio(ex[i], base.export, 10000),
           idx2005_import |-> Ratio(im[i], base.import, 10000)]]

(* [ok, rows]: the script raises when table trade does not exist and when  *)
(* wide has no January 2005 row (IndexError on .iloc[0]).                  *)
generate_metrics_incremental(store) ==
    IF ~ store.trade.has \/ BaseRows(NatWide(store.trade.rows)) = <<>>
    THEN [ok |-> FALSE, rows |-> <<>>]
    ELSE IF store.kpi_monthly.has
    THEN [ok |-> TRUE, rows |-> store.kpi_monthly.rows]
    ELSE [ok |-> TRUE, rows |-> NatKpiRows(NatWide(store.trade.rows))]
generate_metrics(store) ==
    IF ~ store.trade.has \/ BaseRows(NatWide(store.trade.rows)) = <<>>
    THEN [ok |-> FALSE, rows |-> <<>>]
    ELSE [ok |-> TRUE, rows |-> NatKpiRows(NatWide(store.trade.rows))]

MetCompute ==
    /\ At("metrics", "start")
    /\ proc' = IF generate_metrics(db).ok
               THEN [proc EXCEPT !.kpi = generate_metrics(db).rows, !.pc = "write"]
               ELSE ExitProc(proc, 1)
    /\ UNCHANGED <<books, db, pq, drv, edit, hist, app>>

(* CREATE OR REPLACE TABLE kpi_monthly AS SELECT * FROM kpi_monthly        *)
MetWrite ==
    /\ At("metrics", "write")
    /\ \E ok \in WriteOutcomes :
         /\ db' = IF ok THEN [db EXCEPT !.kpi_monthly = WriteTable(@, proc.kpi)] ELSE db
         /\ proc' = IF ok THEN [proc EXCEPT !.pc = "mirror"] ELSE ExitProc(proc, 1)
         /\ hist' = IF ok THEN [hist EXCEPT !.wrote = @ \cup {"kpi_monthly"}]
                    ELSE [hist EXCEPT !.fault = TRUE, !.events = @ + 1]
    /\ UNCHANGED <<books, pq, drv, edit, app>>

MetMirror ==
    /\ At("metrics", "mirror")
    /\ \E ok \in WriteOutcomes :
         /\ pq' = IF ok THEN [pq EXCEPT !.kpi_monthly = WriteParquet(@, proc.kpi)] ELSE pq
         /\ proc' = ExitProc(proc, IF ok THEN 0 ELSE 1)
         /\ hist' = IF ok THEN hist ELSE [hist EXCEPT !.fault = TRUE, !.events = @ + 1]
    /\ UNCHANGED <<books, db, drv, edit, app>>

----------------------------------------------------------------------------
(* metrics_products.py: generate_product_metrics                           *)

(* pivot_table(index=[year, month, month_num, category], columns=flow,     *)
(* values=usd, aggfunc='sum'): the sum of the period's records of the      *)
(* flow, NaN when it has none; a flow with no record in the whole table    *)
(* gets the constant column 0.                                             *)
FlowSum(rows, k, flow) ==
    LET sel == SelectSeq(rows, LAMBDA r : /\ r.year = k.year /\ r.month = k.month
                                          /\ r.category = k.category /\ r.flow = flow)
    IN IF \A i \in DOMAIN rows : rows[i].flow # flow THEN Fin(0)
       ELSE IF sel = <<>> THEN NA
       ELSE Fin(SumSeq([i \in 1..Len(sel) |-> sel[i].usd]))

SeriesRank(k) == CatRank(k.category) * 100000 + (k.year - 2000) * (Len(MONTHS) + 1) + MonthNum(k.month)

(* pivot_table sorts its index [year, month, month_num, category] by the   *)
(* values, the month labels as strings.                                    *)
PivotRank(k) ==
    ((k.year - 2000) * (Len(MONTHS) + 1) + LabelNum(k.month)) * (Len(CatOrder) + 1)
      + CatRank(k.category)

(* What (exp / imp).replace([inf, -inf], None).round(4) does with an       *)
(* infinite quotient depends on the pandas build (none is pinned):         *)
(*   "pad"   value=None means method='pad': the value is taken from the    *)
(*           nearest row above that is not infinite, and kept when there   *)
(*           is none;                                                      *)
(*   "raise" the value becomes None in an object column, on which round    *)
(*           raises TypeError;                                             *)
(*   "none"  the value becomes None and round leaves the column alone.     *)
ReplaceBuilds == {"pad", "raise", "none"}

ReplaceInfKeep(col, build) == col
ReplaceInf(col, build) ==
    [i \in DOMAIN col |->
        IF col[i].k # "inf" THEN col[i]
        ELSE IF build = "pad"
        THEN LET J == {j \in 1..(i - 1) : col[j].k # "inf"}
             IN IF J = {} THEN col[i] ELSE col[MaxOf(J)]
        ELSE NA]

(* wide after the pivot, balance and cov_ratio, in the order of the pivot. *)
ProdPivot(rows) ==
    LET monthly == SelectSeq(rows, IsMonthRec)
        K == {[year |-> monthly[i].year, month |-> monthly[i].month,
               category |-> monthly[i].category] : i \in DOMAIN monthly}
        keys == SortSet(K, [k \in K |-> PivotRank(k)])
        exp == [i \in 1..Len(keys) |-> FlowSum(monthly, keys[i], "export")]
        imp == [i \in 1..Len(keys) |-> FlowSum(monthly, keys[i], "import")]
        cov == ReplaceInf([i \in 1..Len(keys) |-> Ratio(exp[i], imp[i], 10000)], hist.build)
    IN [i \in 1..Len(keys) |->
          [year |-> keys[i].year, month |-> keys[i].month,
           month_num |-> MonthNum(keys[i].month), category |-> keys[i].category,
           exp |-> exp[i], imp |-> imp[i], balance |-> Minus(exp[i], imp[i]),
           cov_ratio |-> cov[i]]]

(* Does round(4) raise?  Only on the object column that None leaves.       *)
CovRatioRaises(rows) ==
    /\ hist.build = "raise"
    /\ \E i \in DOMAIN ProdPivot(rows) :
          LET w == ProdPivot(rows)[i]
          IN IsFin(w.exp) /\ IsFin(w.imp) /\ w.imp.v = 0 /\ w.exp.v # 0

(* wide after sort_values([category, year, month_num]).                    *)
ProdWide(rows) ==
    LET W == Range(ProdPivot(rows))
    IN SortSet(W, [w \in W |-> SeriesRank(w)])

(* calculate_base_index: the series' first value when it is > 0, else 1    *)
(* (one unit: 100 cents).                                                  *)
FirstAsIs(x) == x
FirstOrOne(x) == IF IsFin(x) /\ x.v > 0 THEN x ELSE Fin(100)

(* The KPI rows of one category: lags, rolling means and the base index    *)
(* are taken within the category's rows (groupby("category")).             *)
SeriesKpi(g) ==
    LET ex == [i \in DOMAIN g |-> g[i].exp]
        im == [i \in DOMAIN g |-> g[i].imp]
        ba == [i \in DOMAIN g |-> g[i].balance]
    IN [i \in DOMAIN g |->
          [year |-> g[i].year, month |-> g[i].month, month_num |-> g[i].month_num,
           category |-> g[i].category,
           exp |-> ex[i], imp |-> im[i], balance |-> ba[i], cov_ratio |-> g[i].cov_ratio,
           exp_mom |-> PctCol(ex, LagMoM)[i], exp_yoy |-> PctCol(ex, LagYoY)[i],
           imp_mom |-> PctCol(im, LagMoM)[i], imp_yoy |-> PctCol(im, LagYoY)[i],
           exp_ma3 |-> Ma3(ex)[i], imp_ma3 |-> Ma3(im)[i], balance_ma3 |-> Ma3(ba)[i],
           idx_exp |-> Ratio(ex[i], FirstOrOne(ex[1]), 10000),
           idx_imp |-> Ratio(im[i], FirstOrOne(im[1]), 10000)]]

ProdKpiRowsUngrouped(wide) == SeriesKpi(wide)
ProdKpiRows(wide) ==
    CHOOSE kpi \in
       {LET C == {sorted[i].category : i \in DOMAIN sorted}
            cats == SortSet(C, [c \in C |-> CatRank(c)])
        IN Flatten([j \in 1..Len(cats) |->
                      SeriesKpi(SelectSeq(sorted, LAMBDA w : w.category = cats[j]))]) :
          sorted \in {wide}} : TRUE

(* [found, ok, rows]: found is FALSE when the probe of trade_prod fails    *)
(* (the function returns False); ok is FALSE when round(4) raises and when *)
(* the table has no monthly record: groupby("category").apply() then has   *)
(* no group to call calculate_base_index on, and whether wide keeps its    *)
(* columns (an empty KPI table is written) or loses them (wide[final_cols] *)
(* is a KeyError) depends on the pandas build.                             *)
generate_product_metrics(store) ==
    IF ~ store.trade_prod.has THEN [found |-> FALSE, ok |-> FALSE, rows |-> <<>>]
    ELSE IF SelectSeq(store.trade_prod.rows, IsMonthRec) = <<>>
    THEN [found |-> TRUE, ok |-> FALSE, rows |-> <<>>]
    ELSE IF CovRatioRaises(store.trade_prod.rows)
    THEN [found |-> TRUE, ok |-> FALSE, rows |-> <<>>]
    ELSE [found |-> TRUE, ok |-> TRUE, rows |-> ProdKpiRows(ProdWide(store.trade_prod.rows))]

(* The script's exit status is 0 also when the function returns False.     *)
PMetCompute ==
    /\ At("metrics_products", "start")
    /\ LET m == generate_product_metrics(db)
           empty == db.trade_prod.has /\ SelectSeq(db.trade_prod.rows, IsMonthRec) = <<>>
       IN \E keeps \in IF empty THEN BOOLEAN ELSE {FALSE} :
             proc' = IF ~ m.found THEN ExitProc(proc, 0)
                     ELSE IF m.ok \/ keeps THEN [proc EXCEPT !.kpi = m.rows, !.pc = "write"]
                     ELSE ExitProc(proc, 1)
    /\ UNCHANGED <<books, db, pq, drv, edit, hist, app>>

PMetWrite ==
    /\ At("metrics_products", "write")
    /\ \E ok \in WriteOutcomes :
         /\ db' = IF ok THEN [db EXCEPT !.kpi_prod_monthly = WriteTable(@, proc.kpi)] ELSE db
         /\ proc' = IF ok THEN [proc EXCEPT !.pc = "mirror"] ELSE ExitProc(proc, 1)
         /\ hist' = IF ok THEN [hist EXCEPT !.wrote = @ \cup {"kpi_prod_monthly"}]
                    ELSE [hist EXCEPT !.fault = TRUE, !.events = @ + 1]
    /\ UNCHANGED <<books, pq, drv, edit, app>>

PMetMirror ==
    /\ At("metrics_products", "mirror")
    /\ \E ok \in WriteOutcomes :
         /\ pq' = IF ok THEN [pq EXCEPT !.kpi_prod_monthly = WriteParquet(@, proc.kpi)] ELSE pq
         /\ proc' = ExitProc(proc, IF ok THEN 0 ELSE 1)
         /\ hist' = IF ok THEN hist ELSE [hist EXCEPT !.fault = TRUE, !.events = @ + 1]
    /\ UNCHANGED <<books, db, drv, edit, app>>

(* eda.py and tests/test_products_qa.py write no table and no mirror; the  *)
(* exit status of each is whatever the plotting and the test run give.     *)
EdaRun ==
    /\ At("eda", "start")
    /\ \E rc \in {0, 1} : proc' = ExitProc(proc, rc)
    /\ UNCHANGED <<books, db, pq, drv, edit, hist, app>>

QaRun ==
    /\ At("qa", "start")
    /\ \E rc \in {0, 1} : proc' = ExitProc(proc, rc)
    /\ UNCHANGED <<books, db, pq, drv, edit, hist, app>>

----------------------------------------------------------------------------
(* run_pipeline.py: main, run_command, check_files                         *)

Scripts == <<"etl", "etl_products", "metrics", "metrics_products", "eda", "qa">>

LastFatal == 5

check_files(bk) == \A p \in {ObsF8, ObsG6, F1, G1} : bk[p].exists

IdleDrv == [pc |-> "idle", stage |-> 0, rc |-> 0, started |-> <<>>, codes |-> <<>>]

(* The driver after the stage it waits for has ended with status rc:       *)
(* run_command returns False on a non-zero status, and main then calls     *)
(* sys.exit(1) for stages 1-5 and goes on for stage 6.                     *)
DriverAfterIgnoreRc(d, rc) ==
    IF d.stage < Len(Scripts)
    THEN [d EXCEPT !.stage = @ + 1, !.started = Append(@, d.stage + 1),
                   !.codes = Append(@, rc)]
    ELSE [d EXCEPT !.pc = "exited", !.rc = 0, !.codes = Append(@, rc)]
DriverAfter(d, rc) ==
    IF rc # 0 /\ d.stage <= LastFatal
    THEN [d EXCEPT !.pc = "exited", !.rc = 1, !.codes = Append(@, rc)]
    ELSE IF d.stage < Len(Scripts)
    THEN [d EXCEPT !.stage = @ + 1, !.started = Append(@, d.stage + 1),
                   !.codes = Append(@, rc)]
    ELSE [d EXCEPT !.pc = "exited", !.rc = 0, !.codes = Append(@, rc)]

Stopped == drv.pc \in {"idle", "exited", "killed"} /\ proc.script = "none"

(* main up to the first run_command: check_files, then stage 1.  A start   *)
(* after a kill is the re-run of the interrupted run.                      *)
DriverStart ==
    /\ Stopped
    /\ hist' = IF drv.pc = "killed"
               THEN [hist EXCEPT !.fault = FALSE, !.wrote = {}]
               ELSE [hist EXCEPT !.fault = FALSE, !.wrote = {}, !.killedAt = <<>>,
                                 !.db0 = db, !.pq0 = pq]
    /\ IF check_files(books)
       THEN /\ drv' = [pc |-> "wait", stage |-> 1, rc |-> 0,
                       started |-> <<1>>, codes |-> <<>>]
            /\ proc' = StartProc(Scripts[1])
       ELSE /\ drv' = [IdleDrv EXCEPT !.pc = "exited", !.rc = 1]
            /\ proc' = NoProc
    /\ UNCHANGED <<books, db, pq, edit, app>>

(* subprocess.run returns: the child has ended.                            *)
StageReturn ==
    /\ drv.pc = "wait"
    /\ proc.pc = "exit"
    /\ drv' = DriverAfter(drv, proc.rc)
    /\ proc' = IF drv'.pc = "wait" THEN StartProc(Scripts[drv'.stage]) ELSE NoProc
    /\ UNCHANGED <<books, db, pq, edit, hist, app>>

MirrorOf(script) ==
    CASE script = "etl" -> "trade"
      [] script = "etl_products" -> "trade_prod"
      [] script = "metrics" -> "kpi_monthly"
      [] script = "metrics_products" -> "kpi_prod_monthly"
      [] OTHER -> "none"

(* The run is killed (driver and child).  Table writes are transactions;   *)
(* a kill during to_parquet may leave the mirror file cut short.           *)
Interrupt ==
    /\ drv.pc = "wait"
    /\ hist.events < MaxEvents
    /\ drv' = [drv EXCEPT !.pc = "killed"]
    /\ proc' = NoProc
    /\ \E torn \in IF proc.pc = "mirror" THEN BOOLEAN ELSE {FALSE} :
          /\ pq' = IF torn THEN [pq EXCEPT ![MirrorOf(proc.script)] = TornFile] ELSE pq
          /\ hist' = [hist EXCEPT !.killedAt = <<proc.script, proc.pc, torn>>,
                                  !.events = @ + 1]
    /\ UNCHANGED <<books, db, edit, app>>

----------------------------------------------------------------------------
(* app.py: load_data, load_products_data, render_category_analysis;        *)
(* insights_engine.py: build_insights                                      *)

(* SUM(CASE WHEN flow = ... THEN usd END) over a group: NULL when the      *)
(* group has no value of the flow.                                         *)
SumOrNull(vals) == IF vals = <<>> THEN NA ELSE Fin(SumSeq(vals))

NatFlowAgg(rows, k, flow) ==
    LET sel == SelectSeq(rows, LAMBDA r : /\ r.year = k.year /\ r.month = k.month
                                          /\ r.flow = flow /\ ~ IsNull(r.usd))
    IN SumOrNull([i \in 1..Len(sel) |-> Val(sel[i].usd)])

ProdFlowAgg(rows, k, flow) ==
    LET sel == SelectSeq(rows, LAMBDA r : /\ r.year = k.year /\ r.month = k.month
                                          /\ r.category = k.category /\ r.flow = flow)
    IN SumOrNull([i \in 1..Len(sel) |-> sel[i].usd])

(* The base aggregation of trade: GROUP BY year, month ORDER BY year,      *)
(* month (the labels as strings).                                          *)
NatBaseAgg(rows) ==
    LET monthly == SelectSeq(rows, IsMonthRec)
        K == {[year |-> monthly[i].year, month |-> monthly[i].month] : i \in DOMAIN monthly}
        keys == SortSet(K, [k \in K |-> PeriodRankByLabel(k)])
    IN [i \in 1..Len(keys) |->
          LET e == NatFlowAgg(monthly, keys[i], "export")
              m == NatFlowAgg(monthly, keys[i], "import")
          IN [year |-> keys[i].year, month |-> keys[i].month,
              export |-> e, import |-> m, balance |-> Minus(e, m)]]

(* The base aggregation of trade_prod: GROUP BY year, month, category      *)
(* ORDER BY year, month, category.                                         *)
ProdBaseAgg(rows) ==
    LET monthly == SelectSeq(rows, IsMonthRec)
        K == {[year |-> monthly[i].year, month |-> monthly[i].month,
               category |-> monthly[i].category] : i \in DOMAIN monthly}
        keys == SortSet(K, [k \in K |-> PivotRank(k)])
    IN [i \in 1..Len(keys) |->
          LET e == ProdFlowAgg(monthly, keys[i], "export")
              m == ProdFlowAgg(monthly, keys[i], "import")
          IN [year |-> keys[i].year, month |-> keys[i].month, category |-> keys[i].category,
              export |-> e, import |-> m, balance |-> Minus(e, m)]]

(* load_data: (base_df, kpi_df, has_kpi).  The inner try covers the KPI    *)
(* query only; a failing connect or base query ends in the outer except,   *)
(* which returns (None, None, False).                                      *)
load_data_kpi_flag_always(store, connects) ==
    IF ~ connects \/ ~ store.trade.has
    THEN [base |-> Null, kpi |-> Null, has_kpi |-> FALSE]
    ELSE [base |-> Some(NatBaseAgg(store.trade.rows)),
          kpi |-> IF store.kpi_monthly.has THEN Some(store.kpi_monthly.rows) ELSE Null,
          has_kpi |-> TRUE]
load_data(store, connects) ==
    IF ~ connects \/ ~ store.trade.has
    THEN [base |-> Null, kpi |-> Null, has_kpi |-> FALSE]
    ELSE [base |-> Some(NatBaseAgg(store.trade.rows)),
          kpi |-> IF store.kpi_monthly.has THEN Some(store.kpi_monthly.rows) ELSE Null,
          has_kpi |-> store.kpi_monthly.has]

(* load_products_data: (prod_df, kpi_prod_df, has_prod, has_prod_kpi),     *)
(* each query in a try of its own.                                         *)
load_products_data(store, connects) ==
    IF ~ connects
    THEN [prod |-> Null, kpi_prod |-> Null, has_prod |-> FALSE, has_prod_kpi |-> FALSE]
    ELSE [prod |-> IF store.trade_prod.has
                   THEN Some(ProdBaseAgg(store.trade_prod.rows)) ELSE Null,
          kpi_prod |-> IF store.kpi_prod_monthly.has
                       THEN Some(store.kpi_prod_monthly.rows) ELSE Null,
          has_prod |-> store.trade_prod.has,
          has_prod_kpi |-> store.kpi_prod_monthly.has]

(* duckdb.connect raises when another process holds the database file.    *)
ConnectOutcomes == BOOLEAN

(* main() with a loader's result not cached (st.cache_data): the loader   *)
(* runs; a cached result is reused as it is.  app.conn records whether     *)
(* the loader that produced the cached result got its connection.          *)
AppLoad ==
    /\ ~ app.loaded
    /\ \E c1 \in ConnectOutcomes, c2 \in ConnectOutcomes :
          app' = [NoApp EXCEPT !.loaded = TRUE,
                               !.cached = {"nat", "prod"},
                               !.conn = [nat |-> IF "nat" \in app.cached
                                                 THEN app.conn.nat ELSE c1,
                                         prod |-> IF "prod" \in app.cached
                                                  THEN app.conn.prod ELSE c2],
                               !.nat = IF "nat" \in app.cached THEN app.nat
                                       ELSE load_data(db, c1),
                               !.prod = IF "prod" \in app.cached THEN app.prod
                                        ELSE load_products_data(db, c2)]
    /\ UNCHANGED <<books, db, pq, drv, proc, edit, hist>>

(* ttl=900: a cached result is dropped, each loader's on its own.          *)
AppExpire ==
    /\ app.loaded
    /\ \E which \in {"nat", "prod"} :
          app' = [NoApp EXCEPT !.cached = app.cached \ {which},
                               !.conn = [app.conn EXCEPT ![which] = FALSE],
                               !.nat = IF which = "nat" THEN <<>> ELSE app.nat,
                               !.prod = IF which = "prod" THEN <<>> ELSE app.prod]
    /\ UNCHANGED <<books, db, pq, drv, proc, edit, hist>>

(* The possible results of sort_values(ascending=False).head(n) on the     *)
(* items of S, key being a function on S: each place takes an item with    *)
(* the largest key among those left (equal keys come out in either         *)
(* order).                                                                 *)
RECURSIVE TopOrders(_, _, _)
TopOrders(S, key, n) ==
    IF n = 0 \/ S = {} THEN {<<>>}
    ELSE UNION {{<<m>> \o t : t \in TopOrders(S \ {m}, key, n - 1)} :
                   m \in {x \in S : \A y \in S : key[x] >= key[y]}}

(* groupby('category')[col].sum() over the rows of the latest year: NaN    *)
(* values are skipped.                                                     *)
CategorySum(df, col, c) ==
    LET last_year == MaxOf({df[i].year : i \in DOMAIN df})
        sel == SelectSeq(df, LAMBDA r : r.year = last_year /\ r.category = c /\ IsFin(r[col]))
    IN SumSeq([i \in 1..Len(sel) |-> sel[i][col].v])

(* The possible results of                                                 *)
(* last_year_data.groupby('category')[col].sum()                           *)
(*     .sort_values(ascending=False).head(n).index.tolist()                *)
TopCategoriesAscending(df, col, n) ==
    LET last_year == MaxOf({df[i].year : i \in DOMAIN df})
        C == {df[i].category : i \in {j \in DOMAIN df : df[j].year = last_year}}
    IN TopOrders(C, [c \in C |-> 0 - CategorySum(df, col, c)], n)
TopCategories(df, col, n) ==
    LET last_year == MaxOf({df[i].year : i \in DOMAIN df})
        C == {df[i].category : i \in {j \in DOMAIN df : df[j].year = last_year}}
    IN TopOrders(C, [c \in C |-> CategorySum(df, col, c)], n)

(* The frame the category tab works on: the KPI table when it was loaded,  *)
(* else the base aggregation.                                              *)
CategoryFrame(view) == IF view.has_prod_kpi THEN Val(view.kpi_prod) ELSE Val(view.prod)
ExportColumn(view) == IF view.has_prod_kpi THEN "exp" ELSE "export"

MaxTop == 3

(* render_category_analysis up to the top-N selection.  main() returns     *)
(* before it when base_df is None and does not call it without has_prod.   *)
AppTop ==
    /\ app.loaded
    /\ ~ IsNull(app.nat.base)
    /\ app.prod.has_prod
    /\ CategoryFrame(app.prod) # <<>>
    /\ \E n \in 1..MaxTop :
          \E cats \in TopCategories(CategoryFrame(app.prod), ExportColumn(app.prod), n) :
             app' = [app EXCEPT !.top = <<[n |-> n, cats |-> cats]>>, !.insights = <<>>]
    /\ UNCHANGED <<books, db, pq, drv, proc, edit, hist>>

(* |x| as a sort key: an infinite value sorts before every number.         *)
AbsKey(x) == IF x.k = "inf" THEN 2147483647 ELSE AbsInt(x.v)

(* exp_yoy of a record as build_insights sees it: the constant 0 when the  *)
(* frame has no such column.                                               *)
YoYOf(r) == IF "exp_yoy" \in DOMAIN r THEN r.exp_yoy ELSE Fin(0)

SinDatos == [kind |-> "Sin datos"]
DatosInsuficientes == [kind |-> "Datos insuficientes"]

InsightOf(r) ==
    [kind |-> "Insight", category |-> r.category, year |-> r.year, month |-> r.month,
     yoy |-> YoYOf(r), balance |-> r.balance]

(* The possible results of build_insights(df_view, top_n).                 *)
build_insights_by_value(df_view, top_n) ==
    IF df_view = <<>> THEN {<<SinDatos>>}
    ELSE LET latest_year == MaxOf({df_view[i].year : i \in DOMAIN df_view})
             sub == SelectSeq(df_view, LAMBDA r : /\ r.year = latest_year
                                                   /\ YoYOf(r).k # "na" /\ r.balance.k # "na")
             S == Range(sub)
         IN IF sub = <<>> THEN {<<DatosInsuficientes>>}
            ELSE {[i \in DOMAIN p |-> InsightOf(p[i])] :
                     p \in TopOrders(S, [r \in S |-> YoYOf(r).v], top_n)}
build_insights(df_view, top_n) ==
    IF df_view = <<>> THEN {<<SinDatos>>}
    ELSE LET latest_year == MaxOf({df_view[i].year : i \in DOMAIN df_view})
             sub == SelectSeq(df_view, LAMBDA r : /\ r.year = latest_year
                                                   /\ YoYOf(r).k # "na" /\ r.balance.k # "na")
             S == Range(sub)
         IN IF sub = <<>> THEN {<<DatosInsuficientes>>}
            ELSE {[i \in DOMAIN p |-> InsightOf(p[i])] :
                     p \in TopOrders(S, [r \in S |-> AbsKey(YoYOf(r))], top_n)}

(* The years of a frame and the year filters applied to it: every year,    *)
(* the latest year only, no year at all.                                   *)
YearsOf(df) == {df[i].year : i \in DOMAIN df}
YearFilters(df) == {YearsOf(df), {MaxOf(YearsOf(df))}, {}}

(* build_insights(df_view, top_n) called on the category frame cut to a    *)
(* range of years: the KPI table, or the base aggregation, which has no    *)
(* column exp_yoy (as the frame of test_build_insights_missing_columns).   *)
AppInsights ==
    /\ app.loaded
    /\ app.prod.has_prod
    /\ CategoryFrame(app.prod) # <<>>
    /\ \E top_n \in 1..MaxTop, years \in YearFilters(CategoryFrame(app.prod)) :
          LET df_view == SelectSeq(CategoryFrame(app.prod), LAMBDA r : r.year \in years)
          IN \E res \in build_insights(df_view, top_n) :
                app' = [app EXCEPT !.top = <<>>,
                                   !.insights = <<[top_n |-> top_n, years |-> years, out |-> res]>>]
    /\ UNCHANGED <<books, db, pq, drv, proc, edit, hist>>

----------------------------------------------------------------------------
(* Running a script by hand: uv run python observatorio/<script>.py        *)

CliStart(script) ==
    /\ drv.pc # "wait"
    /\ proc.script = "none"
    /\ hist.events < MaxEvents
    /\ proc' = StartProc(script)
    /\ hist' = [hist EXCEPT !.events = @ + 1]
    /\ UNCHANGED <<books, db, pq, drv, edit, app>>

CliExit ==
    /\ drv.pc # "wait"
    /\ proc.pc = "exit"
    /\ proc' = NoProc
    /\ UNCHANGED <<books, db, pq, drv, edit, hist, app>>

----------------------------------------------------------------------------
(* Workbooks of the model                                                  *)

Row(name, c1, c2, c3) == [name |-> name, cells |-> <<c1, c2, c3>>]

(* A category sheet: a title row, the header row (the name column is the   *)
(* third), two rows the parser passes over, then one row per category.     *)
MkProdGrid(labels, rows) ==
    << <<Str("Cuadro"), NaN, NaN, NaN, NaN, NaN>>,
       <<NaN, NaN, Str("Producto"), Str(labels[1]), Str(labels[2]), Str(labels[3])>>,
       <<NaN, NaN, Str("(US$)"), NaN, NaN, NaN>>,
       <<NaN, NaN, NaN, NaN, NaN, NaN>> >>
    \o [i \in 1..Len(rows) |-> <<NaN, NaN, Str(rows[i].name)>> \o rows[i].cells]

(* A national sheet: the header row and the 'Total general' row.           *)
MkNatGrid(labels, cells) ==
    << <<Str("Cuadro"), NaN, NaN, NaN>>,
       <<Str("Concepto"), Str(labels[1]), Str(labels[2]), Str(labels[3])>>,
       <<Str("Total general"), cells[1], cells[2], cells[3]>> >>

Sheet(name, grid) == [name |-> name, grid |-> grid]

StdLabels == <<"Enero", "Febrero", "Total">>

NoEdit == [on |-> FALSE, row |-> 0, col |-> 0, d |-> 0, clean |-> FALSE, category |-> ""]

(* The operator's edit: monthly cell col of data row `row` changed by d.   *)
EditCell(c, d) == Num((IF c.k = "num" THEN c.v ELSE 0) + d)

ApplyEdit(rows, e) ==
    IF ~ e.on THEN rows
    ELSE [rows EXCEPT ![e.row].cells[e.col] = EditCell(@, e.d)]

NatBookA == Book(<< Sheet("2005", MkNatGrid(StdLabels, <<Num(1000), Num(2000), Num(3000)>>)),
                    Sheet("Notas", <<>>) >>)
NatBookB == Book(<< Sheet("2005", MkNatGrid(StdLabels, <<Num(800), Num(400), Num(1300)>>)) >>)

ProdBookExp == Book(<< Sheet("2005", MkProdGrid(StdLabels, <<Row("Cafe", Num(900), Num(100), Num(1000))>>)) >>)

(* Rows of the reconciliation runs: clean rows (the months sum to the      *)
(* total), rows with a zero or empty cell, a repeated category name, rows  *)
(* whose total is off by +500.00, by -10,000,001.00 and by exactly         *)
(* +1,000.00 USD, and a row with a total and no month.                     *)
QaRowPool ==
    { Row("Cafe", Num(100), Num(200), Num(300)),
      Row("Oro", Num(200000), Num(0), Num(200000)),
      Row("Cafe", Num(700), Num(100), Num(800)),
      Row("Zinc", Num(0), Num(0), Num(0)),
      Row("Plata", Num(100), Num(200), Num(50300)),
      Row("Cacao", Num(1000000200), Num(0), Num(100)),
      Row("Zinc", Num(0), Num(0), Num(5000)),
      Row("Oro", Num(200000), NaN, Num(300000)) }

QaHeaders == { StdLabels, <<"Enero", "Enero", "Total">>, <<"Enero", "Febrero", "Suma">> }

QaDeltas == {100001, -200000}

MaxRows == 2

(* The sheets: up to MaxRows different rows of the pool, in any order.     *)
QaRowSeqs ==
    UNION {{rs \in [1..n -> QaRowPool] : \A i, j \in 1..n : i # j => rs[i] # rs[j]} :
              n \in 0..MaxRows}

CellNum(c) == IF c.k = "num" THEN c.v ELSE 0

RowClean(r) == CellNum(r.cells[1]) + CellNum(r.cells[2]) = CellNum(r.cells[3])

(* The edits of a sheet: none, or one monthly cell of one row changed by   *)
(* d; clean records whether every row of the sheet summed to its total     *)
(* cell before the edit.                                                   *)
QaEdits(labels, rows) ==
    LET clean == labels[3] = "Total" /\ \A i \in DOMAIN rows : RowClean(rows[i])
    IN {[NoEdit EXCEPT !.clean = clean]} \cup
       {[on |-> TRUE, row |-> r, col |-> c, d |-> d, clean |-> clean,
         category |-> rows[r].name] :
            r \in DOMAIN rows, c \in 1..2, d \in QaDeltas}

QaBooks(labels, rows) ==
    [p \in Paths |->
        CASE p = F1 -> Book(<< Sheet("2005", MkProdGrid(labels, rows)) >>)
          [] p = G1 -> ProdBookExp
          [] p \in {F8, ObsF8} -> NatBookA
          [] OTHER -> NatBookB]

NoStore == [t \in Tables |-> NoTable]

NoHist == [fault |-> FALSE, wrote |-> {}, killedAt |-> <<>>,
           db0 |-> NoStore, pq0 |-> NoStore,
           events |-> 0, build |-> "none"]

(* The reconciliation runs: etl_products.py run by hand on a sheet drawn   *)
(* from the pool, as it is or after one edit of a monthly cell.            *)
InitQA ==
    /\ \E labels \in QaHeaders, rows \in QaRowSeqs :
         \E e \in QaEdits(labels, rows) :
            /\ books = QaBooks(labels, ApplyEdit(rows, e))
            /\ edit = e
    /\ hist = NoHist
    /\ db = NoStore
    /\ pq = NoStore
    /\ drv = IdleDrv
    /\ proc = NoProc
    /\ app = NoApp

NextQA ==
    \/ CliStart("etl_products")
    \/ ProdCheck
    \/ ProdParse
    \/ ProdQa
    \/ ProdWrite
    \/ ProdMirror
    \/ CliExit

SpecQA == InitQA /\ [][NextQA]_vars

----------------------------------------------------------------------------
(* The pipeline runs                                                       *)

NatBookC == Book(<< Sheet("2005", MkNatGrid(StdLabels, <<Num(500), Num(700), Num(1200)>>)),
                    Sheet("2006", MkNatGrid(StdLabels, <<Num(600), Num(900), Num(1500)>>)) >>)
NatBook2006 == Book(<< Sheet("2006", MkNatGrid(StdLabels, <<Num(600), Num(900), Num(1500)>>)) >>)

ProdBookImpA == Book(<< Sheet("2005", MkProdGrid(StdLabels,
                          << Row("Cafe", Num(100), Num(200), Num(300)),
                             Row("Oro", Num(400), Num(0), Num(400)) >>)) >>)
ProdBookImpB == Book(<< Sheet("2005", MkProdGrid(StdLabels,
                          << Row("Cafe", Num(100), Num(250), Num(300)) >>)),
                        Sheet("2006", MkProdGrid(StdLabels,
                          << Row("Cafe", Num(300), Num(150), Num(450)) >>)) >>)
ProdBookEmpty == Book(<< Sheet("2005", MkProdGrid(StdLabels, <<>>)) >>)

SrcA ==
    [p \in Paths |->
        CASE p \in {F8, ObsF8} -> NatBookA
          [] p \in {G6, ObsG6} -> NatBookB
          [] p = F1 -> ProdBookImpA
          [] OTHER -> ProdBookExp]

(* The source sets of the pipeline runs: two complete ones, one without    *)
(* the category import workbook, one whose data/ copy of the national      *)
(* import workbook is missing, one whose national workbooks have no 2005   *)
(* sheet, one whose category workbooks hold no category row, and one       *)
(* whose category import workbook cannot be read.                          *)
PipeConfigs ==
    { SrcA,
      [SrcA EXCEPT ![F8] = NatBookC, ![ObsF8] = NatBookC, ![F1] = ProdBookImpB],
      [SrcA EXCEPT ![F1] = MissingBook],
      [SrcA EXCEPT ![F8] = MissingBook],
      [SrcA EXCEPT ![F8] = NatBook2006, ![ObsF8] = NatBook2006,
                   ![G6] = NatBook2006, ![ObsG6] = NatBook2006],
      [SrcA EXCEPT ![F1] = ProdBookEmpty, ![G1] = ProdBookEmpty],
      [SrcA EXCEPT ![F1] = CorruptBook] }

(* Between runs the source workbooks are replaced by another set; the      *)
(* next start is then a run of its own, not the re-run of a killed one.    *)
EditSources ==
    /\ Stopped
    /\ hist.events < MaxEvents
    /\ \E bk \in PipeConfigs \ {books} : books' = bk
    /\ hist' = [hist EXCEPT !.events = @ + 1]
    /\ drv' = IdleDrv
    /\ UNCHANGED <<db, pq, proc, edit, app>>

Init ==
    /\ books \in PipeConfigs
    /\ edit = NoEdit
    /\ \E b \in ReplaceBuilds : hist = [NoHist EXCEPT !.build = b]
    /\ db = NoStore
    /\ pq = NoStore
    /\ drv = IdleDrv
    /\ proc = NoProc
    /\ app = NoApp

Next ==
    \/ DriverStart
    \/ StageReturn
    \/ Interrupt
    \/ EditSources
    \/ NatParse
    \/ NatQa
    \/ NatWrite
    \/ NatMirror
    \/ ProdCheck
    \/ ProdParse
    \/ ProdQa
    \/ ProdWrite
    \/ ProdMirror
    \/ MetCompute
    \/ MetWrite
    \/ MetMirror
    \/ PMetCompute
    \/ PMetWrite
    \/ PMetMirror
    \/ EdaRun
    \/ QaRun

Spec == Init /\ [][Next]_vars

----------------------------------------------------------------------------
(* The parser runs: etl_products.py and etl.py run by hand                 *)

(* A category sheet whose rows start `lead` rows below the header row; the *)
(* name cell of a row is any cell (a text, or empty).                      *)
MkParseGrid(labels, lead, rows) ==
    << <<Str("Cuadro"), NaN, NaN, NaN, NaN, NaN>>,
       <<NaN, NaN, Str("Producto"), Str(labels[1]), Str(labels[2]), Str(labels[3])>> >>
    \o [i \in 1..lead |-> <<NaN, NaN, NaN, NaN, NaN, NaN>>]
    \o [i \in 1..Len(rows) |-> <<NaN, NaN, rows[i].name>> \o rows[i].cells]

(* Rows with valid and invalid names, and cells that are numbers, zero,    *)
(* empty, texts, and texts that spell a number.                            *)
ParseRowPool ==
    { Row(Str("Cafe"), Num(100), Num(200), Num(300)),
      Row(Str("Oro"), Num(0), Str("n.d."), Num(50)),
      Row(Str("Zinc"), Num(0), NaN, Num(0)),
      Row(Str("Plata"), Str("0"), Str("150"), NaN),
      Row(Str("Cacao"), Str(""), Num(70), NaN),
      Row(Str("Te"), Num(10), Num(20), Num(30)),
      Row(NaN, Num(10), Num(20), Num(30)),
      Row(Str("None"), Num(10), Num(20), Num(30)),
      Row(Str("Incluye reexportaciones"), Num(10), Num(20), Num(30)),
      Row(Str("TOTAL"), Num(10), Num(20), Num(30)),
      Row(Str("Totales"), Num(10), Num(20), Num(30)),
      Row(Str("   "), Num(10), Num(20), Num(30)) }

ParseRowSeqs ==
    UNION {{rs \in [1..n -> ParseRowPool] : \A i, j \in 1..n : i # j => rs[i] # rs[j]} :
              n \in 0..MaxRows}

ParseHeaders == { StdLabels, <<" Enero ", "Febrero", "Total ">> }

SkippedRows == 2

(* What else the workbook holds besides the 2005 sheet: nothing, a sheet   *)
(* that is no year, a year sheet with no 'Enero' row, a second year.       *)
OtherSheets ==
    { <<>>,
      << Sheet("Notas", MkProdGrid(StdLabels, <<Row("Oro", Num(1), Num(2), Num(3))>>)) >>,
      << Sheet("2006", << <<Str("Cuadro"), NaN, NaN, NaN, NaN, NaN>>,
                          <<NaN, NaN, Str("Oro"), Num(1), Num(2), Num(3)>> >>) >>,
      << Sheet("2006", MkProdGrid(StdLabels, <<Row("Oro", Num(1), Num(2), Num(3))>>)) >> }

ParseProdBooks ==
    { Book(<< Sheet("2005", MkParseGrid(StdLabels, lead, rows)) >>) :
         lead \in (SkippedRows - 1)..SkippedRows, rows \in ParseRowSeqs }
    \cup
    { Book(<< Sheet("2005", MkParseGrid(labels, SkippedRows,
                                        <<Row(Str("Cafe"), Num(100), Num(200), Num(300))>>)) >>
           \o other) :
         labels \in ParseHeaders, other \in OtherSheets }

(* National workbooks: a good one; one with a sheet that is no year; one   *)
(* with a second year; and, next to a good 2005 sheet, a 2006 sheet with   *)
(* no 'Enero' row, with no cell equal to "Total" in the header, with no    *)
(* 'Total general' row, and with a text in the grand-total row.            *)
ParseNatBooks ==
    { NatBookB, NatBookA, NatBookC,
      Book(<< Sheet("2005", MkNatGrid(StdLabels, <<Num(800), Num(400), Num(1300)>>)),
              Sheet("2006", << <<Str("Cuadro"), NaN, NaN, NaN>>,
                               <<Str("Total general"), Num(1), Num(2), Num(3)>> >>) >>),
      Book(<< Sheet("2005", MkNatGrid(StdLabels, <<Num(800), Num(400), Num(1300)>>)),
              Sheet("2006", MkNatGrid(<<"Enero", "Febrero", "Total ">>,
                                      <<Num(1), Num(2), Num(3)>>)) >>),
      Book(<< Sheet("2005", MkNatGrid(StdLabels, <<Num(800), Num(400), Num(1300)>>)),
              Sheet("2006", << <<Str("Concepto"), Str("Enero"), Str("Febrero"), Str("Total")>>,
                               <<Str("Cafe"), Num(1), Num(2), Num(3)>> >>) >>),
      Book(<< Sheet("2005", MkNatGrid(StdLabels, <<Num(800), Num(400), Num(1300)>>)),
              Sheet("2006", MkNatGrid(StdLabels, <<Num(1), Str("n.d."), Num(3)>>)) >>),
      Book(<< Sheet("2005", MkNatGrid(<<" Enero ", "Febrero", "Total">>,
                                      <<Num(0), NaN, Str("150")>>)) >>) }

InitParse ==
    /\ \/ \E b \in ParseProdBooks : books = [SrcA EXCEPT ![F1] = b]
       \/ \E b \in ParseNatBooks : books = [SrcA EXCEPT ![F8] = b, ![ObsF8] = b]
    /\ edit = NoEdit
    /\ hist = NoHist
    /\ db = NoStore
    /\ pq = NoStore
    /\ drv = IdleDrv
    /\ proc = NoProc
    /\ app = NoApp

NextParse ==
    \/ CliStart("etl_products")
    \/ CliStart("etl")
    \/ ProdCheck
    \/ ProdParse
    \/ ProdQa
    \/ ProdWrite
    \/ ProdMirror
    \/ NatParse
    \/ NatQa
    \/ NatWrite
    \/ NatMirror
    \/ CliExit

SpecParse == InitParse /\ [][NextParse]_vars

----------------------------------------------------------------------------
(* The metrics runs: metrics.py and metrics_products.py run by hand on     *)
(* fact tables as the two ETL scripts leave them.                          *)

(* The records etl.py gives for one year sheet of a flow: vals[i] is the   *)
(* 'Total general' cell of month i, the months in skip have no column.     *)
NatYear(year, flow, vals, skip) ==
    LET kept == SelectSeq([i \in 1..Len(vals) |-> i], LAMBDA i : i \notin skip)
        total == SumSeq([j \in 1..Len(kept) |-> vals[kept[j]]])
    IN [j \in 1..Len(kept) |->
          [year |-> year, month |-> MONTHS[kept[j]], flow |-> flow,
           usd |-> Some(vals[kept[j]]), sum_months |-> Null]]
       \o << [year |-> year, month |-> "Total", flow |-> flow,
              usd |-> Some(total), sum_months |-> Some(total)] >>

(* The records etl_products.py gives for one category row of a year sheet: *)
(* a month whose cell is empty or 0 (vals[i] = 0) has no record.           *)
ProdYear(year, flow, cat, vals) ==
    LET kept == SelectSeq([i \in 1..Len(vals) |-> i], LAMBDA i : vals[i] # 0)
        total == SumSeq([j \in 1..Len(kept) |-> vals[kept[j]]])
    IN [j \in 1..Len(kept) |->
          [year |-> year, month |-> MONTHS[kept[j]], flow |-> flow,
           category |-> cat, usd |-> vals[kept[j]]]]
       \o << [year |-> year, month |-> "Total", flow |-> flow,
              category |-> cat, usd |-> total] >>

(* Twelve monthly amounts: 100.00, 200.00, ... and half of them.           *)
Ramp == [i \in 1..Len(MONTHS) |-> 10000 * i]
HalfRamp == [i \in 1..Len(MONTHS) |-> 5000 * i]

(* Table trade: two years of both flows; 2005 without the column Marzo;    *)
(* a month whose export is 0; a year present in the export workbook only;  *)
(* three months with amounts in cents; workbooks with a 2006 sheet only.   *)
NatFactTables ==
    { NatYear(2005, "import", HalfRamp, {}) \o NatYear(2006, "import", SubSeq(Ramp, 1, 3), {})
        \o NatYear(2005, "export", Ramp, {}) \o NatYear(2006, "export", SubSeq(Ramp, 2, 4), {}),
      NatYear(2005, "import", HalfRamp, {3}) \o NatYear(2006, "import", SubSeq(Ramp, 1, 3), {})
        \o NatYear(2005, "export", Ramp, {3}) \o NatYear(2006, "export", SubSeq(Ramp, 2, 4), {}),
      NatYear(2005, "import", <<5000, 7000, 9000>>, {})
        \o NatYear(2005, "export", <<10000, 0, 30000>>, {}),
      NatYear(2005, "import", <<5000, 7000>>, {})
        \o NatYear(2005, "export", <<10000, 20000>>, {})
        \o NatYear(2006, "export", <<40000, 50000>>, {}),
      NatYear(2005, "import", <<10050, 10150, 10250>>, {})
        \o NatYear(2005, "export", <<10000, 10100, 10301>>, {}),
      NatYear(2006, "import", <<5000, 7000>>, {})
        \o NatYear(2006, "export", <<10000, 20000>>, {}) }

(* Table trade_prod: two categories with both flows; the export workbook   *)
(* only; a category with more than a year of records, one month of 2005    *)
(* having none; a month with a record of one flow only; a category whose   *)
(* first month has no import record; a table with no monthly record.       *)
ProdFactTables ==
    { ProdYear(2005, "import", "Cafe", <<5000, 7000, 9000>>)
        \o ProdYear(2005, "import", "Oro", <<30000, 20000, 10000>>)
        \o ProdYear(2005, "export", "Cafe", <<10000, 20000, 30000>>)
        \o ProdYear(2005, "export", "Oro", <<60050, 60150, 60250>>),
      ProdYear(2005, "export", "Cafe", <<10000, 20000, 30000>>)
        \o ProdYear(2005, "export", "Oro", <<60000, 50000>>),
      ProdYear(2005, "import", "Cafe", [HalfRamp EXCEPT ![3] = 0])
        \o ProdYear(2006, "import", "Cafe", SubSeq(Ramp, 1, 3))
        \o ProdYear(2005, "export", "Cafe", [Ramp EXCEPT ![3] = 0])
        \o ProdYear(2006, "export", "Cafe", SubSeq(Ramp, 2, 4)),
      ProdYear(2005, "import", "Cafe", <<5000, 0, 9000>>)
        \o ProdYear(2005, "export", "Cafe", <<10000, 20000, 30000>>)
        \o ProdYear(2005, "export", "Zinc", <<700, 800>>),
      ProdYear(2005, "import", "Oro", <<0, 20000, 10000>>)
        \o ProdYear(2005, "export", "Oro", <<60000, 30000, 90000>>),
      << [year |-> 2005, month |-> "Total", flow |-> "export",
          category |-> "Plata", usd |-> 50000] >> }

InitKpi ==
    /\ books = SrcA
    /\ \E t \in NatFactTables, tp \in ProdFactTables :
          /\ db = [NoStore EXCEPT !.trade = WriteTable(NoTable, t),
                                  !.trade_prod = WriteTable(NoTable, tp)]
          /\ pq = [NoStore EXCEPT !.trade = WriteParquet(NoTable, t),
                                  !.trade_prod = WriteParquet(NoTable, tp)]
    /\ edit = NoEdit
    /\ \E b \in ReplaceBuilds : hist = [NoHist EXCEPT !.build = b]
    /\ drv = IdleDrv
    /\ proc = NoProc
    /\ app = NoApp

NextKpi ==
    \/ CliStart("metrics")
    \/ CliStart("metrics_products")
    \/ MetCompute
    \/ MetWrite
    \/ MetMirror
    \/ PMetCompute
    \/ PMetWrite
    \/ PMetMirror
    \/ CliExit

SpecKpi == InitKpi /\ [][NextKpi]_vars

----------------------------------------------------------------------------
(* The dashboard sessions: app.py serving pages on a store as the          *)
(* pipeline scripts leave it.                                              *)

(* Three categories with exports of 500.00, 300.00 and 800.00 in January   *)
(* 2006: Cafe and Oro with all of 2005 before it (+25% and -50% on January *)
(* 2005), Cacao with two months of 2005.                                   *)
AppProdFactsA ==
    ProdYear(2005, "export", "Cafe", [Ramp EXCEPT ![1] = 40000])
      \o ProdYear(2006, "export", "Cafe", <<50000>>)
      \o ProdYear(2005, "import", "Cafe", HalfRamp)
      \o ProdYear(2006, "import", "Cafe", <<20000>>)
      \o ProdYear(2005, "export", "Cacao", <<60000, 20000>>)
      \o ProdYear(2006, "export", "Cacao", <<30000>>)
      \o ProdYear(2005, "import", "Cacao", <<5000, 10000>>)
      \o ProdYear(2006, "import", "Cacao", <<40000>>)
      \o ProdYear(2005, "export", "Oro", [Ramp EXCEPT ![1] = 160000])
      \o ProdYear(2006, "export", "Oro", <<80000>>)
      \o ProdYear(2005, "import", "Oro", HalfRamp)
      \o ProdYear(2006, "import", "Oro", <<10000>>)

(* Three categories with two months of 2005 and January 2006, one of them  *)
(* with no import in January 2006.                                         *)
AppProdFactsB ==
    ProdYear(2005, "export", "Cafe", <<20000, 20000>>)
      \o ProdYear(2006, "export", "Cafe", <<30000>>)
      \o ProdYear(2005, "import", "Cafe", <<5000, 10000>>)
      \o ProdYear(2006, "import", "Cafe", <<20000>>)
      \o ProdYear(2005, "export", "Oro", <<20000, 20000>>)
      \o ProdYear(2006, "export", "Oro", <<10000>>)
      \o ProdYear(2005, "import", "Oro", <<5000, 10000>>)
      \o ProdYear(2006, "import", "Oro", <<10000>>)
      \o ProdYear(2005, "export", "Zinc", <<10000, 20000>>)
      \o ProdYear(2006, "export", "Zinc", <<90000>>)
      \o ProdYear(2005, "import", "Zinc", <<5000, 10000>>)

(* One category with three months of 2005.                                 *)
AppProdFactsC ==
    ProdYear(2005, "export", "Cafe", <<10000, 20000, 30000>>)
      \o ProdYear(2005, "import", "Cafe", <<5000, 7000, 9000>>)

(* The store after metrics.py resp. metrics_products.py has run on it.     *)
WithNatKpi(store) ==
    [store EXCEPT !.kpi_monthly = WriteTable(@, generate_metrics(store).rows)]
WithProdKpi(store) ==
    [store EXCEPT !.kpi_prod_monthly = WriteTable(@, generate_product_metrics(store).rows)]

(* The stores a session starts on: no table at all, table trade only,      *)
(* both fact tables, and these with one or both KPI tables derived.        *)
AppStores ==
    LET nat == NatYear(2005, "import", <<5000, 7000>>, {})
                 \o NatYear(2005, "export", <<10000, 20000>>, {})
        s1 == [NoStore EXCEPT !.trade = WriteTable(NoTable, nat)]
        facts == {[s1 EXCEPT !.trade_prod = WriteTable(NoTable, t)] :
                     t \in {AppProdFactsA, AppProdFactsB, AppProdFactsC}}
    IN {NoStore, s1, WithNatKpi(s1)}
         \cup facts
         \cup {WithNatKpi(f) : f \in facts}
         \cup {WithProdKpi(WithNatKpi(f)) : f \in facts}

InitApp ==
    /\ books = SrcA
    /\ edit = NoEdit
    /\ \E b \in ReplaceBuilds : hist = [NoHist EXCEPT !.build = b]
    /\ db \in AppStores
    /\ pq = db
    /\ drv = IdleDrv
    /\ proc = NoProc
    /\ app = NoApp

NextApp ==
    \/ AppLoad
    \/ AppExpire
    \/ AppTop
    \/ AppInsights

SpecApp == InitApp /\ [][NextApp]_vars

----------------------------------------------------------------------------
(* Properties of the reconciliation and of the category parser (SpecQA)    *)

QaDone == proc.script = "etl_products" /\ proc.qa.status # "none"

ProdParsed == proc.script = "etl_products" /\ proc.pc \in {"qa", "write", "mirror"}

(* The records parse_book returns for the workbooks on disk.               *)
ParsedProd == Flatten(ProdFrames(books))

KeysOf(rows) == {GroupKey(rows[i]) : i \in DOMAIN rows}

CountRecs(rows, k, month) ==
    Cardinality({i \in DOMAIN rows : GroupKey(rows[i]) = k /\ rows[i].month = month})

FindingsFor(q, k) == {i \in DOMAIN q : GroupKey(q[i]) = k}

C3_DeltaForEveryGroup ==
    QaDone =>
        \A k \in KeysOf(SelectSeq(proc.df, IsTotalRec)) :
            \E i \in FindingsFor(proc.qa.joined, k) :
                proc.qa.joined[i].delta =
                    Some(GroupSum(SelectSeq(proc.df, IsTotalRec), k)
                         - GroupSum(SelectSeq(proc.df, IsMonthRec), k))

(* C5 (as claimed): a group is flagged exactly when |delta| > $1,000, the  *)
(* threshold of the QA test.                                               *)
C5_FlaggedIffAboveThousand ==
    QaDone =>
        \A i \in DOMAIN proc.qa.joined :
            LET f == proc.qa.joined[i]
            IN ~ IsNull(f.delta) =>
                 ((\E j \in DOMAIN proc.qa.bad : proc.qa.bad[j] = f)
                    <=> AbsInt(Val(f.delta)) > TestTolCents)

AbsDelta(f) == AbsInt(Val(f.delta))

(* C6 (as claimed): the worst findings are listed by |delta| descending,   *)
(* and no finding left out has a larger |delta| than one listed.           *)
C6_WorstRankedByAbsDelta ==
    QaDone =>
        LET w == proc.qa.worst
        IN /\ \A i, j \in DOMAIN w : i < j => AbsDelta(w[i]) >= AbsDelta(w[j])
           /\ \A i \in DOMAIN proc.qa.bad :
                 (\A j \in DOMAIN w : w[j] # proc.qa.bad[i]) =>
                     \A j \in DOMAIN w : AbsDelta(w[j]) >= AbsDelta(proc.qa.bad[i])

(* C10 (as claimed): in the records the category parser emits, every       *)
(* (year, flow, category) group has at most one record per month label     *)
(* and exactly one 'Total' record.                                         *)
C10_OnePerMonthOneTotal ==
    ProdParsed =>
        \A k \in KeysOf(proc.df) :
            /\ \A i \in DOMAIN MONTHS : CountRecs(proc.df, k, MONTHS[i]) <= 1
            /\ CountRecs(proc.df, k, "Total") = 1

EditGroup == [year |-> 2005, flow |-> "import", category |-> edit.category]

HasMonthAndTotal(rows, k) ==
    /\ \E i \in DOMAIN rows : GroupKey(rows[i]) = k /\ IsMonthRec(rows[i])
    /\ \E i \in DOMAIN rows : GroupKey(rows[i]) = k /\ IsTotalRec(rows[i])

----------------------------------------------------------------------------
(* Properties of the pipeline runs (Spec)                                  *)

(* C1: the driver starts the stages in the order ETL national, ETL         *)
(* categories, KPI national, KPI categories, EDA, QA tests; while it       *)
(* waits, the only child is the current stage and every earlier stage has  *)
(* returned its status; a non-zero status of one of stages 1-5 is the last *)
(* status of the run, which ends with exit status 1 and starts no further  *)
(* stage; a run that reaches the QA stage ends with exit status 0 whatever *)
(* the status of the QA stage.                                             *)
C1_StagesInOrderStopOnFailure ==
    /\ drv.started = [i \in 1..Len(drv.started) |-> i]
    /\ Len(drv.started) <= Len(Scripts)
    /\ drv.pc = "wait" =>
          /\ drv.stage = Len(drv.started)
          /\ proc.script = Scripts[drv.stage]
          /\ Len(drv.codes) = drv.stage - 1
    /\ drv.pc = "exited" => Len(drv.codes) = Len(drv.started)
    /\ \A i \in DOMAIN drv.codes :
          (i <= LastFatal /\ drv.codes[i] # 0) =>
              /\ i = Len(drv.started)
              /\ drv.pc = "exited"
              /\ drv.rc = 1
    /\ (drv.pc = "exited" /\ Len(drv.codes) = Len(Scripts)) => drv.rc = 0

(* C1 witness: a run stopped by the failure of stage 3 (KPI national).     *)
C1_Witness ==
    /\ drv.pc = "exited"
    /\ drv.started = <<1, 2, 3>>
    /\ drv.codes = <<0, 0, 1>>
    /\ drv.rc = 1

(* C7: once the fact store writer has run, the fact table (trade,          *)
(* trade_prod) holds exactly the records parsed from the current source    *)
(* workbooks, whatever it held before, and writing the same records again  *)
(* leaves the same table.                                                  *)
C7_WriterIsFullReplace ==
    /\ At("etl", "mirror") =>
          /\ proc.df = NatFrames(books).recs
          /\ db.trade = [has |-> TRUE, rows |-> proc.df]
          /\ WriteTable(db.trade, proc.df) = db.trade
    /\ At("etl_products", "mirror") =>
          /\ proc.df = Flatten(ProdFrames(books))
          /\ db.trade_prod = [has |-> TRUE, rows |-> proc.df]
          /\ WriteTable(db.trade_prod, proc.df) = db.trade_prod

(* C7 witness: the writer has replaced a table that held other records.    *)
C7_Witness ==
    /\ At("etl_products", "mirror")
    /\ hist.db0.trade_prod.has
    /\ hist.db0.trade_prod.rows # <<>>
    /\ hist.db0.trade_prod.rows # proc.df

(* One run of the six stages with no kill and no failing write, from the   *)
(* store d0 and the mirror files p0.                                       *)
RunAll(bk, d0, p0) ==
    LET nat == NatFrames(bk)
        d1 == [d0 EXCEPT !.trade = WriteTable(@, nat.recs)]
        p1 == [p0 EXCEPT !.trade = WriteParquet(@, nat.recs)]
        prod == ProdFilesPresent(bk) /\ ProdFrames(bk) # <<>>
        pdf == Flatten(ProdFrames(bk))
        d2 == IF prod THEN [d1 EXCEPT !.trade_prod = WriteTable(@, pdf)] ELSE d1
        p2 == IF prod THEN [p1 EXCEPT !.trade_prod = WriteParquet(@, pdf)] ELSE p1
        met == generate_metrics(d2)
        d3 == [d2 EXCEPT !.kpi_monthly = WriteTable(@, met.rows)]
        p3 == [p2 EXCEPT !.kpi_monthly = WriteParquet(@, met.rows)]
        pm == generate_product_metrics(d3)
        d4 == IF pm.found /\ pm.ok
              THEN [d3 EXCEPT !.kpi_prod_monthly = WriteTable(@, pm.rows)] ELSE d3
        p4 == IF pm.found /\ pm.ok
              THEN [p3 EXCEPT !.kpi_prod_monthly = WriteParquet(@, pm.rows)] ELSE p3
    IN IF ~ check_files(bk) \/ ~ nat.ok THEN [db |-> d0, pq |-> p0]
       ELSE IF ~ met.ok THEN [db |-> d2, pq |-> p2]
       ELSE [db |-> d4, pq |-> p4]

(* C8: when a run was killed and the pipeline was run again from the       *)
(* start on the same source workbooks, with no write failing in the        *)
(* re-run, the tables and the mirror files at the end are those of one     *)
(* uninterrupted run from the state before the killed run.                 *)
C8_RerunAfterKillSameAsOneRun ==
    (drv.pc = "exited" /\ hist.killedAt # <<>> /\ ~ hist.fault) =>
        /\ db = RunAll(books, hist.db0, hist.pq0).db
        /\ pq = RunAll(books, hist.db0, hist.pq0).pq

(* C8 witness: the run was killed inside the KPI mirror write, which left  *)
(* a file cut short, and the re-run went through all six stages.           *)
C8_Witness ==
    /\ drv.pc = "exited"
    /\ hist.killedAt = <<"metrics", "mirror", TRUE>>
    /\ ~ hist.fault
    /\ Len(drv.codes) = Len(Scripts)
    /\ db.kpi_prod_monthly.has

(* C9: when a metrics run has completed, the KPI table is the metrics      *)
(* derivation of the fact table as it is now, and of nothing else.         *)
C9_KpiDerivedFromFactsOnly ==
    /\ (At("metrics", "exit") /\ proc.rc = 0) =>
          db.kpi_monthly = [has |-> TRUE, rows |-> NatKpiRows(NatWide(db.trade.rows))]
    /\ (At("metrics_products", "exit") /\ proc.rc = 0 /\ db.trade_prod.has) =>
          db.kpi_prod_monthly =
              [has |-> TRUE, rows |-> ProdKpiRows(ProdWide(db.trade_prod.rows))]

(* C9 witness: a metrics run has completed over a fact table that gives    *)
(* other KPI rows than the ones stored before the run.                     *)
C9_Witness ==
    /\ At("metrics", "exit")
    /\ proc.rc = 0
    /\ hist.db0.kpi_monthly.has
    /\ hist.db0.kpi_monthly.rows # db.kpi_monthly.rows

----------------------------------------------------------------------------
(* Properties of the parsers (SpecParse)                                   *)

(* The 2005 sheet of the category import workbook and its header row.      *)
ImpGrid == books[F1].sheets[1].grid

ImpHead == HeadIdx(ImpGrid)

RowsBelowHeader == (ImpHead + 1)..Len(ImpGrid)

RowName(r) == CellText(NameCell(ImpGrid, r))

(* The records of the run that carry the name of row r of that sheet.      *)
RowRecs(r) ==
    {i \in DOMAIN proc.df : /\ proc.df[i].flow = "import"
                            /\ proc.df[i].year = 2005
                            /\ proc.df[i].category = RowName(r)}

(* A valid name in the words of the claim: non-empty after trimming, not   *)
(* nan / none, three characters or more, not starting with Incluye or      *)
(* Total, whatever the case.                                               *)
ValidName(t) ==
    LET low == Lower(Chars[t])
    IN /\ Len(low) >= 3
       /\ low # <<"n", "a", "n">>
       /\ low # <<"n", "o", "n", "e">>
       /\ ~ (Len(low) >= 7 /\ SubSeq(low, 1, 7) = <<"i", "n", "c", "l", "u", "y", "e">>)
       /\ ~ (Len(low) >= 5 /\ SubSeq(low, 1, 5) = <<"t", "o", "t", "a", "l">>)

MonthCols == {c \in 1..NCols(ImpGrid) : CellText(ImpGrid[ImpHead][c]) \in MonthSet}

HasNumericMonthCell(r) == \E c \in MonthCols : ImpGrid[r][c].k = "num"

HasNonZeroNumber(r) ==
    \E c \in ColMapProd(ImpGrid, ImpHead) : ImpGrid[r][c].k = "num" /\ ImpGrid[r][c].v # 0

(* C11 (as claimed): a row below the header with an invalid name yields no *)
(* record, and a row below the header with a valid name and at least one   *)
(* numeric month cell yields records.                                      *)
C11_DataRowIffValidName ==
    (ProdParsed /\ ImpHead > 0) =>
        \A r \in RowsBelowHeader :
            /\ ~ ValidName(RowName(r)) => RowRecs(r) = {}
            /\ (ValidName(RowName(r)) /\ HasNumericMonthCell(r)) => RowRecs(r) # {}

(* C11 (amended): a row yields records only if its name is valid and it    *)
(* lies three rows or more below the header row; such a row yields records *)
(* when one of its cells under a month or Total header is a non-zero       *)
(* number.                                                                 *)
C11_DataRowFromThirdRowDown ==
    (ProdParsed /\ ImpHead > 0) =>
        \A r \in RowsBelowHeader :
            /\ RowRecs(r) # {} => (ValidName(RowName(r)) /\ r > ImpHead + SkippedRows)
            /\ (ValidName(RowName(r)) /\ r > ImpHead + SkippedRows /\ HasNonZeroNumber(r))
                  => RowRecs(r) # {}

(* C11 witness: the parser has kept a row with a valid name and passed     *)
(* over a row named 'Totales' that holds numbers.                          *)
C11_Witness ==
    /\ ProdParsed
    /\ ImpHead > 0
    /\ \E r1, r2 \in RowsBelowHeader :
          /\ RowRecs(r1) # {}
          /\ RowName(r2) = "Totales"
          /\ r2 > ImpHead + SkippedRows
          /\ HasNonZeroNumber(r2)
          /\ RowRecs(r2) = {}

(* C12 (as claimed): every record the category parser emits comes from a   *)
(* cell that holds a non-zero number, so every record has a usd different  *)
(* from zero and a non-empty category name.                                *)
C12_RecordsOnlyFromNonZeroNumbers ==
    (ProdParsed /\ ImpHead > 0) =>
        /\ \A i \in DOMAIN proc.df : proc.df[i].usd # 0 /\ proc.df[i].category # ""
        /\ \A r \in RowsBelowHeader : \A c \in ColMapProd(ImpGrid, ImpHead) :
              (\E i \in RowRecs(r) : proc.df[i].month = CellText(ImpGrid[ImpHead][c]))
                  => (ImpGrid[r][c].k = "num" /\ ImpGrid[r][c].v # 0)

(* The national import workbook.                                           *)
NatImpBook == books[F8]

(* C13 (as claimed): a year sheet the parser cannot use is skipped and the *)
(* records of the other year sheets are still returned: once the national  *)
(* parser has run, df holds the records of every year sheet of the import  *)
(* workbook that has a header row, a 'Total' column, a grand-total row and  *)
(* numbers in it; and once the category parser has run, df holds the       *)
(* records of every year sheet of the category import workbook.            *)
C13_UnusableSheetSkipped ==
    /\ (proc.script = "etl" /\ proc.pc # "start") =>
          \A i \in DOMAIN NatImpBook.sheets :
             LET sh == NatImpBook.sheets[i]
             IN (IsYearSheet(sh.name) /\ ~ SheetRaisesNat(sh)) =>
                   \A j \in DOMAIN ParseSheetNat(sh, "import") :
                      \E k \in DOMAIN proc.df : proc.df[k] = ParseSheetNat(sh, "import")[j]
    /\ ProdParsed =>
          \A i \in DOMAIN books[F1].sheets :
             LET sh == books[F1].sheets[i]
             IN \A j \in DOMAIN ParseSheetProd(sh, "import") :
                   \E k \in DOMAIN proc.df : proc.df[k] = ParseSheetProd(sh, "import")[j]

----------------------------------------------------------------------------
(* Properties of the ingestion stages in a pipeline run (Spec)             *)

(* The source workbooks of ingestion stage k (1: etl.py, 2:                *)
(* etl_products.py), and whether one of them is missing or unreadable.     *)
SourcesOf(k) == IF k = 1 THEN Range(SRC_NAT) ELSE Range(SRC_PROD)
BadSource(k) == \E p \in SourcesOf(k) : ~ books[p].exists \/ ~ books[p].readable

(* C14 (as claimed): in a pipeline run, an ingestion stage that runs with  *)
(* a missing or unreadable source workbook ends with a non-zero status     *)
(* without having written its fact table, and the driver starts no stage   *)
(* after it.                                                               *)
C14_BadWorkbookFailsStage ==
    drv.pc = "wait" =>
        \A k \in 1..2 :
           BadSource(k) =>
              /\ drv.stage <= k
              /\ (proc.script = Scripts[k] /\ proc.pc = "exit") =>
                    (proc.rc # 0 /\ MirrorOf(Scripts[k]) \notin hist.wrote)

(* The flows that have a record in the database table trade_prod.          *)
ProdFlowsStored == {db.trade_prod.rows[i].flow : i \in DOMAIN db.trade_prod.rows}

(* C15 (as claimed): when the category ETL has replaced trade_prod, the    *)
(* table holds a record of each flow.                                      *)
C15_BothFlowsAfterReplace ==
    At("etl_products", "mirror") => ProdFlowsStored = {"import", "export"}

----------------------------------------------------------------------------
(* Properties of the KPI tables (SpecKpi)                                  *)

NatKpi == db.kpi_monthly.rows
ProdKpi == db.kpi_prod_monthly.rows
ProdKpiCats == {ProdKpi[i].category : i \in DOMAIN ProdKpi}

(* One series of a KPI table: per record the period, the value and the     *)
(* indicators derived from it, f naming the columns.                       *)
SeriesView(rows, f) ==
    [i \in DOMAIN rows |->
        [year |-> rows[i].year, month |-> rows[i].month, v |-> rows[i][f.v],
         mom |-> rows[i][f.mom], yoy |-> rows[i][f.yoy], ma3 |-> rows[i][f.ma3]]]

NatCols ==
    { [v |-> "export", mom |-> "export_mom", yoy |-> "export_yoy", ma3 |-> "export_ma3"],
      [v |-> "import", mom |-> "import_mom", yoy |-> "import_yoy", ma3 |-> "import_ma3"] }
ProdCols ==
    { [v |-> "exp", mom |-> "exp_mom", yoy |-> "exp_yoy", ma3 |-> "exp_ma3"],
      [v |-> "imp", mom |-> "imp_mom", yoy |-> "imp_yoy", ma3 |-> "imp_ma3"] }

(* The balance series carries a rolling mean only.                         *)
NatBalCols == [v |-> "balance", mom |-> "export_mom", yoy |-> "export_yoy", ma3 |-> "balance_ma3"]
ProdBalCols == [v |-> "balance", mom |-> "exp_mom", yoy |-> "exp_yoy", ma3 |-> "balance_ma3"]

OfCategory(c) == SelectSeq(ProdKpi, LAMBDA w : w.category = c)

NatSeries == {SeriesView(NatKpi, f) : f \in NatCols}
ProdSeries == {SeriesView(OfCategory(c), f) : c \in ProdKpiCats, f \in ProdCols}
KpiSeries == NatSeries \cup ProdSeries
MeanSeries ==
    KpiSeries \cup {SeriesView(NatKpi, NatBalCols)}
              \cup {SeriesView(OfCategory(c), ProdBalCols) : c \in ProdKpiCats}

(* A period as a count of months.                                          *)
PeriodNo(r) == r.year * Len(MONTHS) + MonthNum(r.month)

(* Has the fact table a monthly record of the flow for the period?         *)
HasNatFact(w, flow) ==
    \E i \in DOMAIN db.trade.rows :
        LET r == db.trade.rows[i]
        IN r.year = w.year /\ r.month = w.month /\ r.flow = flow /\ ~ IsNull(r.usd)
HasProdFact(w, flow) ==
    \E i \in DOMAIN db.trade_prod.rows :
        LET r == db.trade_prod.rows[i]
        IN r.year = w.year /\ r.month = w.month /\ r.flow = flow /\ r.category = w.category

(* C16 (as claimed): in both KPI tables balance is export - import when    *)
(* the period has a fact of both flows and null when it lacks a fact of    *)
(* either flow; a missing flow never counts as 0.                          *)
C16_BalanceNullUnlessBothFlows ==
    /\ \A i \in DOMAIN NatKpi :
          LET w == NatKpi[i]
          IN w.balance = IF HasNatFact(w, "export") /\ HasNatFact(w, "import")
                         THEN Fin(w.export.v - w.import.v) ELSE NA
    /\ \A i \in DOMAIN ProdKpi :
          LET w == ProdKpi[i]
          IN w.balance = IF HasProdFact(w, "export") /\ HasProdFact(w, "import")
                         THEN Fin(w.exp.v - w.imp.v) ELSE NA

(* The value n records earlier in the series, NaN when there is none.      *)
Earlier(s, i, n) == IF i > n THEN s[i - n].v ELSE NA

NoDenominator(x) == ~ IsFin(x) \/ x.v = 0

(* C17 (as claimed): mom_pct and yoy_pct are never infinite, and are null  *)
(* whenever the value 1 resp. 12 periods earlier is null, zero or absent.  *)
C17_PctNullOnBadDenominator ==
    \A s \in KpiSeries : \A i \in DOMAIN s :
        /\ s[i].mom.k # "inf" /\ s[i].yoy.k # "inf"
        /\ NoDenominator(Earlier(s, i, LagMoM)) => s[i].mom = NA
        /\ NoDenominator(Earlier(s, i, LagYoY)) => s[i].yoy = NA

(* The series' value for the same month of the year before, NaN when the   *)
(* series has no record of it.                                             *)
SameMonthYearBefore(s, i) ==
    LET J == {j \in DOMAIN s : s[j].year = s[i].year - 1 /\ s[j].month = s[i].month}
    IN IF J = {} THEN NA ELSE s[CHOOSE j \in J : TRUE].v

(* C18 (as claimed): yoy_pct of the record of (y, m) compares its value    *)
(* with the series' value of (y - 1, m), and is null for the first 12      *)
(* records of a series, also when months are missing.                      *)
C18_YoYSameMonthYearBefore ==
    \A s \in KpiSeries : \A i \in DOMAIN s :
        /\ s[i].yoy = PctChange(s[i].v, SameMonthYearBefore(s, i))
        /\ i <= LagYoY => s[i].yoy = NA

(* The value of the series' latest record before record i, NaN when        *)
(* record i is the series' earliest.                                       *)
Preceding(s, i) ==
    LET J == {j \in DOMAIN s : PeriodNo(s[j]) < PeriodNo(s[i])}
    IN IF J = {} THEN NA
       ELSE s[CHOOSE j \in J : \A k \in J : PeriodNo(s[k]) <= PeriodNo(s[j])].v

IsEarliest(s, i) == \A j \in DOMAIN s : PeriodNo(s[i]) <= PeriodNo(s[j])

(* C19: mom_pct of a record compares its value with the value of the       *)
(* latest earlier record of the same series (for the category table: of    *)
(* the same category), and is null for the earliest record of each series. *)
C19_MoMPrecedingOfSameSeries ==
    \A s \in KpiSeries : \A i \in DOMAIN s :
        /\ s[i].mom = PctChange(s[i].v, Preceding(s, i))
        /\ IsEarliest(s, i) => s[i].mom = NA

(* C19 witness: the category KPI table is written with two categories,     *)
(* the later one starting with a null mom_pct and going on with a number.  *)
C19_Witness ==
    /\ db.kpi_prod_monthly.has
    /\ Cardinality(ProdKpiCats) >= 2
    /\ \E i \in DOMAIN ProdKpi :
          /\ i > 1 /\ i < Len(ProdKpi)
          /\ ProdKpi[i].category # ProdKpi[i - 1].category
          /\ ProdKpi[i].exp_mom = NA
          /\ IsFin(ProdKpi[i + 1].exp_mom)

(* The records of the window of record i: itself and up to two before it.  *)
WindowOf(s, i) == SubSeq(s, IF i >= MaWindow THEN i - MaWindow + 1 ELSE 1, i)

WindowNumbers(s, i) ==
    LET win == SelectSeq(WindowOf(s, i), LAMBDA r : IsFin(r.v))
    IN [j \in 1..Len(win) |-> win[j].v.v]

(* C20 (as claimed): ma3 is the mean of the values of the record and of    *)
(* up to two records before it in the same series.                        *)
C20_Ma3IsWindowMean ==
    \A s \in MeanSeries : \A i \in DOMAIN s :
        LET nums == WindowNumbers(s, i)
        IN Len(nums) = Len(WindowOf(s, i)) =>
              /\ IsFin(s[i].ma3)
              /\ Len(nums) * s[i].ma3.v = SumSeq(nums)

(* Is q (in cents) the whole-unit amount nearest to sum / n, the even one  *)
(* of the two when sum / n lies half-way?                                  *)
IsRoundedMean(q, sum, n) ==
    /\ q % 100 = 0
    /\ 2 * AbsInt(sum - n * q) <= 100 * n
    /\ 2 * AbsInt(sum - n * q) = 100 * n => (q \div 100) % 2 = 0

(* C20 (amended): ma3 is the mean, rounded to the whole unit (ties to      *)
(* even), of the non-null values among the record and up to two records    *)
(* before it in the same series, and null when all of them are null.       *)
C20_Ma3IsRoundedMeanOfNumbers ==
    \A s \in MeanSeries : \A i \in DOMAIN s :
        LET nums == WindowNumbers(s, i)
        IN IF nums = <<>> THEN s[i].ma3 = NA
           ELSE /\ IsFin(s[i].ma3)
                /\ IsRoundedMean(s[i].ma3.v, SumSeq(nums), Len(nums))

(* C20 witness: a written KPI table has a record with a full window whose  *)
(* mean is not a whole unit, and a record whose window holds a null.       *)
C20_Witness ==
    /\ db.kpi_monthly.has /\ db.kpi_prod_monthly.has
    /\ \E s \in MeanSeries : \E i \in DOMAIN s :
          /\ i >= MaWindow
          /\ Len(WindowNumbers(s, i)) = MaWindow
          /\ SumSeq(WindowNumbers(s, i)) % (100 * MaWindow) # 0
    /\ \E s \in MeanSeries : \E i \in DOMAIN s :
          /\ WindowNumbers(s, i) # <<>>
          /\ Len(WindowNumbers(s, i)) < Len(WindowOf(s, i))

(* The record of the national base period, January of BaseYear.            *)
NatBaseRow == CHOOSE w \in Range(NatKpi) : w.year = BaseYear /\ w.month = "Enero"

(* The earliest record of category c.                                      *)
FirstOfCategory(c) ==
    CHOOSE w \in Range(OfCategory(c)) :
        \A u \in Range(OfCategory(c)) : PeriodNo(w) <= PeriodNo(u)

(* Is idx (in hundredths) the index v / den x 100 rounded to 2 decimals?   *)
(* A null value has a null index.                                          *)
IsIndexOf(idx, v, den) ==
    IF ~ IsFin(v) THEN idx = NA
    ELSE /\ IsFin(idx)
         /\ 2 * AbsInt(idx.v * den - 10000 * v.v) <= AbsInt(den)

(* The denominator of a category series: the value of its first record,    *)
(* one unit when that value is zero or null.                               *)
CategoryDenominator(x) == IF IsFin(x) /\ x.v # 0 THEN x.v ELSE 100

MetricsScripts == {"metrics", "metrics_products"}

KpiTableOf(script) == IF script = "metrics" THEN "kpi_monthly" ELSE "kpi_prod_monthly"

(* C22 (as claimed): a metrics script that ends without a failed write     *)
(* has ended with status 0 and its KPI table exists, whatever the fact     *)
(* table holds.                                                            *)
C22_MetricsDegradeGracefully ==
    (proc.script \in MetricsScripts /\ proc.pc = "exit" /\ ~ hist.fault) =>
        (proc.rc = 0 /\ db[KpiTableOf(proc.script)].has)

(* C23 (as claimed): in every category KPI record cov_ratio is export /    *)
(* import (4 decimals) when import is a non-zero number, null when import  *)
(* is 0 or null, and never infinite.                                       *)
C23_CoverageNullOnZeroImport ==
    \A i \in DOMAIN ProdKpi :
        LET w == ProdKpi[i]
        IN /\ w.cov_ratio.k # "inf"
           /\ (~ IsFin(w.imp) \/ w.imp.v = 0) => w.cov_ratio = NA
           /\ (IsFin(w.imp) /\ w.imp.v # 0) =>
                 IF IsFin(w.exp)
                 THEN /\ IsFin(w.cov_ratio)
                      /\ 2 * AbsInt(w.cov_ratio.v * w.imp.v - 10000 * w.exp.v) <= AbsInt(w.imp.v)
                 ELSE w.cov_ratio = NA

(* The periods (and categories) that have a monthly record in the fact     *)
(* tables.                                                                 *)
NatFactKeys ==
    {[year |-> db.trade.rows[i].year, month |-> db.trade.rows[i].month] :
        i \in {j \in DOMAIN db.trade.rows : IsMonthRec(db.trade.rows[j])}}
ProdFactKeys ==
    {[year |-> db.trade_prod.rows[i].year, month |-> db.trade_prod.rows[i].month,
      category |-> db.trade_prod.rows[i].category] :
        i \in {j \in DOMAIN db.trade_prod.rows : IsMonthRec(db.trade_prod.rows[j])}}

(* C24 (as claimed): each KPI table has exactly one row per period (and    *)
(* category) of the monthly facts, and in a row the value of a flow that   *)
(* has no fact for it is null, never 0.                                    *)
C24_OneRowPerKeyMissingFlowNull ==
    /\ db.kpi_monthly.has =>
          /\ {[year |-> NatKpi[i].year, month |-> NatKpi[i].month] : i \in DOMAIN NatKpi}
                = NatFactKeys
          /\ Len(NatKpi) = Cardinality(NatFactKeys)
          /\ \A i \in DOMAIN NatKpi :
                /\ ~ HasNatFact(NatKpi[i], "export") => NatKpi[i].export = NA
                /\ ~ HasNatFact(NatKpi[i], "import") => NatKpi[i].import = NA
    /\ db.kpi_prod_monthly.has =>
          /\ {[year |-> ProdKpi[i].year, month |-> ProdKpi[i].month,
               category |-> ProdKpi[i].category] : i \in DOMAIN ProdKpi} = ProdFactKeys
          /\ Len(ProdKpi) = Cardinality(ProdFactKeys)
          /\ \A i \in DOMAIN ProdKpi :
                /\ ~ HasProdFact(ProdKpi[i], "export") => ProdKpi[i].exp = NA
                /\ ~ HasProdFact(ProdKpi[i], "import") => ProdKpi[i].imp = NA

(* C25: in both KPI tables the records of a series follow each other in    *)
(* the order of (year, month number), month numbers being those of the     *)
(* month-order table, and mom_pct, yoy_pct and ma3 of a record are taken   *)
(* over the records that precede it in this order.                         *)
C25_ChronologicalByMonthTable ==
    /\ \A s \in MeanSeries : \A i \in DOMAIN s :
          i > 1 => \/ s[i - 1].year < s[i].year
                   \/ /\ s[i - 1].year = s[i].year
                      /\ MonthNum(s[i - 1].month) < MonthNum(s[i].month)
    /\ \A s \in KpiSeries : \A i \in DOMAIN s :
          /\ s[i].mom = PctChange(s[i].v, Earlier(s, i, LagMoM))
          /\ s[i].yoy = PctChange(s[i].v, Earlier(s, i, LagYoY))
    /\ \A s \in MeanSeries : \A i \in DOMAIN s :
          LET nums == WindowNumbers(s, i)
          IN nums # <<>> => IsRoundedMean(s[i].ma3.v, SumSeq(nums), Len(nums))

(* C25 witness: the national KPI table is written with more than a year    *)
(* of records, Abril after Marzo (the labels sort the other way), and a    *)
(* yoy_pct that is a number.                                               *)
C25_Witness ==
    /\ db.kpi_monthly.has
    /\ Len(NatKpi) > LagYoY
    /\ \E i \in DOMAIN NatKpi :
          i > 1 /\ NatKpi[i - 1].month = "Marzo" /\ NatKpi[i].month = "Abril"
    /\ \E i \in DOMAIN NatKpi : IsFin(NatKpi[i].export_yoy)

----------------------------------------------------------------------------
(* Properties of the dashboard sessions (SpecApp)                          *)

(* C26: after a page load, has_kpi (has_prod_kpi) is true exactly when the *)
(* KPI table exists in the store and its records were read into the frame  *)
(* returned; with the store reachable and the KPI table absent the loader  *)
(* returns the base aggregation of the fact table with the flag false; and *)
(* with table trade_prod absent has_prod is false and a result is still    *)
(* returned.                                                               *)
C26_LoaderFlagsFollowTables ==
    app.loaded =>
       /\ app.nat.has_kpi <=> ~ IsNull(app.nat.kpi)
       /\ app.nat.has_kpi =>
             db.kpi_monthly.has /\ app.nat.kpi = Some(db.kpi_monthly.rows)
       /\ app.conn.nat /\ db.kpi_monthly.has => app.nat.has_kpi
       /\ app.conn.nat /\ db.trade.has /\ ~ db.kpi_monthly.has =>
             ~ app.nat.has_kpi /\ app.nat.base = Some(NatBaseAgg(db.trade.rows))
       /\ app.prod.has_prod_kpi <=> ~ IsNull(app.prod.kpi_prod)
       /\ app.prod.has_prod_kpi =>
             db.kpi_prod_monthly.has /\ app.prod.kpi_prod = Some(db.kpi_prod_monthly.rows)
       /\ app.conn.prod /\ db.kpi_prod_monthly.has => app.prod.has_prod_kpi
       /\ app.conn.prod /\ db.trade_prod.has /\ ~ db.kpi_prod_monthly.has =>
             /\ ~ app.prod.has_prod_kpi
             /\ app.prod.has_prod
             /\ app.prod.prod = Some(ProdBaseAgg(db.trade_prod.rows))
       /\ ~ db.trade_prod.has => ~ app.prod.has_prod /\ IsNull(app.prod.prod)

(* C26 witness: a page loaded from a reachable store that holds table      *)
(* trade but neither a KPI table nor table trade_prod.                     *)
C26_Witness ==
    /\ app.loaded
    /\ app.conn.nat /\ app.conn.prod
    /\ db.trade.has /\ ~ db.kpi_monthly.has /\ ~ db.trade_prod.has
    /\ ~ app.nat.has_kpi /\ ~ IsNull(app.nat.base)
    /\ ~ app.prod.has_prod

(* The categories of the latest year of the frame the category tab works   *)
(* on, and the export a category sums to over that year.                   *)
LatestCategories ==
    LET df == CategoryFrame(app.prod)
    IN {df[i].category : i \in {j \in DOMAIN df : df[j].year = MaxOf(YearsOf(df))}}
LatestExport(c) == CategorySum(CategoryFrame(app.prod), ExportColumn(app.prod), c)

(* C27: the top-N list holds N distinct categories of the latest year (all *)
(* of them when there are fewer than N), in descending order of their      *)
(* export summed over the latest year, and no category left out sums to    *)
(* more than a listed one.                                                 *)
C27_TopNByLatestYearExport ==
    app.top # <<>> =>
       LET n == app.top[1].n
           cats == app.top[1].cats
       IN /\ Len(cats) = IF Cardinality(LatestCategories) < n
                          THEN Cardinality(LatestCategories) ELSE n
          /\ \A i \in DOMAIN cats : cats[i] \in LatestCategories
          /\ \A i, j \in DOMAIN cats : i < j =>
                /\ cats[i] # cats[j]
                /\ LatestExport(cats[i]) >= LatestExport(cats[j])
          /\ \A c \in LatestCategories \ Range(cats) :
                \A i \in DOMAIN cats : LatestExport(cats[i]) >= LatestExport(c)

(* C27 witness: exports of 500.00 (Cafe), 300.00 (Cacao) and 800.00 (Oro)  *)
(* in the latest year and N = 2 give the list Oro, Cafe.                   *)
C27_Witness ==
    /\ app.top # <<>>
    /\ LatestCategories = {"Cafe", "Cacao", "Oro"}
    /\ LatestExport("Cafe") = 50000
    /\ LatestExport("Cacao") = 30000
    /\ LatestExport("Oro") = 80000
    /\ app.top[1] = [n |-> 2, cats |-> <<"Oro", "Cafe">>]

(* The frame the last call of build_insights was given, its records of the *)
(* latest year, and the insights of a result.                              *)
InsightView ==
    SelectSeq(CategoryFrame(app.prod), LAMBDA r : r.year \in app.insights[1].years)
LatestOfView == {r \in Range(InsightView) : r.year = MaxOf(YearsOf(InsightView))}
InsightsIn(out) == SelectSeq(out, LAMBDA x : x.kind = "Insight")

(* What a result is checked against: its insights are at most top_n, each  *)
(* built from a distinct record of E, in descending order of |exp_yoy|,    *)
(* and no record of E left out has a larger |exp_yoy| than a listed one.   *)
TopByAbsYoY(ins, E, top_n) ==
    /\ Len(ins) <= top_n
    /\ \A i \in DOMAIN ins : \E r \in E : ins[i] = InsightOf(r)
    /\ \A i, j \in DOMAIN ins : i < j =>
          /\ ins[i] # ins[j]
          /\ AbsKey(ins[i].yoy) >= AbsKey(ins[j].yoy)
    /\ \A r \in E : InsightOf(r) \notin Range(ins) =>
          \A i \in DOMAIN ins : AbsKey(ins[i].yoy) >= AbsKey(YoYOf(r))

----------------------------------------------------------------------------
(* Properties of the stages' outputs in a pipeline run (Spec)              *)

(* The stages that write a table and the ones the driver has reported as   *)
(* completed in the current run (run_command returned True: status 0).     *)
WritingStages == {k \in DOMAIN Scripts : MirrorOf(Scripts[k]) # "none"}
ReportedCompleted(k) == k \in DOMAIN drv.codes /\ drv.codes[k] = 0

(* C29: a stage 1-4 the driver has reported as completed has replaced its  *)
(* output table during this run.                                           *)
C29_CompletedStageReplacedTable ==
    \A k \in WritingStages :
       ReportedCompleted(k) => MirrorOf(Scripts[k]) \in hist.wrote

(* C30: when an ETL or metrics script has terminated, the parquet mirror   *)
(* of its table holds the same records as the table.                       *)
C30_MirrorMatchesTableAtExit ==
    proc.pc = "exit" /\ MirrorOf(proc.script) # "none" =>
       pq[MirrorOf(proc.script)] = db[MirrorOf(proc.script)]

====
